---- MODULE Spec2Model ----
(***************************************************************************)
(* Model of cache_engine: the policy-based cache facade                    *)
(* (policy_based_cache in cache.hpp) composed of an eviction policy        *)
(* (eviction_policies.hpp), hash or debug storage (storage_policies.hpp),   *)
(* an access policy (access_policies.hpp) and a fixed, dynamic, soft or    *)
(* memory capacity policy (capacity_policies.hpp), together with the       *)
(* factory functions and the legacy cache<K, V, algorithm>                 *)
(* specializations (cache.hpp).                                            *)
(***************************************************************************)
EXTENDS Integers, Sequences, FiniteSets, TLC

\* ------------------------------------------------------------------------
\* Bounds of the model
\* ------------------------------------------------------------------------
MaxKey == 3

MaxCap == 2

MaxFreq == 2

MaxQueue == 3

\* item size estimate of the memory capacity policy, in bytes
MaxItemSize == 2

\* storage operations that the debug storage policy counts
MaxOperations == 5

Keys == 1..MaxKey

\* the caches only copy values and never inspect one: two distinct values
\* tell a replaced value from a kept one
Values == {"a", "b"}

\* no value: an operation that returns none, a failed get
NoValue == "none"

Capacities == 1..MaxCap

\* values std::rand() may return; rand() % size reaches every index
RandValues == 0..(MaxKey - 1)

Algorithms == {"lru", "mru", "fifo", "lfu", "mfu", "random"}

\* ------------------------------------------------------------------------
\* Containers: std::unordered_map as a function, std::list as a sequence of
\* nodes; a list iterator is the identity of the node it designates.
\* ------------------------------------------------------------------------
EmptyMap == [x \in {} |-> 0]

MapPut(f, k, v) == [x \in (DOMAIN f) \cup {k} |-> IF x = k THEN v ELSE f[x]]

MapErase(f, k) == [x \in (DOMAIN f) \ {k} |-> f[x]]

SeqRemove(s, x) == SelectSeq(s, LAMBDA e : e # x)

Range(s) == {s[i] : i \in DOMAIN s}

ListNodes(list) == {list[i].node : i \in DOMAIN list}

ListKeys(list) == [i \in DOMAIN list |-> list[i].key]

\* a newly allocated list node for key k: an identity not in use (the node
\* named after the key while that one is free, else the least free one)
FreshNode(used, k) ==
    IF k \notin used THEN k
    ELSE CHOOSE n \in (MaxKey + 1)..(MaxKey + 1 + Cardinality(used)) :
            n \notin used /\ \A m \in (MaxKey + 1)..(n - 1) : m \in used

ListErase(list, n) == SelectSeq(list, LAMBDA e : e.node # n)

\* list.splice(list.begin(), list, it)
ListSpliceFront(list, n) == SelectSeq(list, LAMBDA e : e.node = n) \o SelectSeq(list, LAMBDA e : e.node # n)

Min(S) == CHOOSE x \in S : \A y \in S : x <= y

Max(S) == CHOOSE x \in S : \A y \in S : x >= y

\* result of select_victim: thrown = std::runtime_error, else the key; ev is
\* the policy afterwards
Victim(thrown, key, ev) == [thrown |-> thrown, key |-> key, ev |-> ev]

\* ------------------------------------------------------------------------
\* lru_eviction_policy
\* ------------------------------------------------------------------------
lru_new == [alg |-> "lru", m_access_list |-> <<>>, m_key_to_iterator |-> EmptyMap]

lru_on_access(ev, k) ==
    IF k \in DOMAIN ev.m_key_to_iterator
    THEN [ev EXCEPT !.m_access_list = ListSpliceFront(@, ev.m_key_to_iterator[k])]
    ELSE ev

\* an insert that does not record the handle of the new element
lru_on_insert_unrecorded(ev, k) ==
    LET n == FreshNode(ListNodes(ev.m_access_list), k)
    IN [ev EXCEPT !.m_access_list = <<[key |-> k, node |-> n]>> \o @]

lru_on_insert(ev, k) ==
    LET n == FreshNode(ListNodes(ev.m_access_list), k)
    IN [ev EXCEPT !.m_access_list = <<[key |-> k, node |-> n]>> \o @,
                  !.m_key_to_iterator = MapPut(@, k, n)]

lru_on_update(ev, k) == lru_on_access(ev, k)

lru_select_victim_front(ev) ==
    IF ev.m_access_list = <<>>
    THEN Victim(TRUE, 0, ev)
    ELSE Victim(FALSE, ev.m_access_list[1].key, ev)

lru_select_victim(ev) ==
    IF ev.m_access_list = <<>>
    THEN Victim(TRUE, 0, ev)
    ELSE Victim(FALSE, ev.m_access_list[Len(ev.m_access_list)].key, ev)

lru_remove_key(ev, k) ==
    IF k \in DOMAIN ev.m_key_to_iterator
    THEN [ev EXCEPT !.m_access_list = ListErase(@, ev.m_key_to_iterator[k]),
                    !.m_key_to_iterator = MapErase(@, k)]
    ELSE ev

\* ------------------------------------------------------------------------
\* mru_eviction_policy
\* ------------------------------------------------------------------------
mru_new == [alg |-> "mru", m_access_list |-> <<>>, m_key_to_iterator |-> EmptyMap]

mru_on_access(ev, k) ==
    IF k \in DOMAIN ev.m_key_to_iterator
    THEN [ev EXCEPT !.m_access_list = ListSpliceFront(@, ev.m_key_to_iterator[k])]
    ELSE ev

mru_on_insert(ev, k) ==
    LET n == FreshNode(ListNodes(ev.m_access_list), k)
    IN [ev EXCEPT !.m_access_list = <<[key |-> k, node |-> n]>> \o @,
                  !.m_key_to_iterator = MapPut(@, k, n)]

mru_on_update(ev, k) == mru_on_access(ev, k)

mru_select_victim_back(ev) ==
    IF ev.m_access_list = <<>>
    THEN Victim(TRUE, 0, ev)
    ELSE Victim(FALSE, ev.m_access_list[Len(ev.m_access_list)].key, ev)

mru_select_victim(ev) ==
    IF ev.m_access_list = <<>>
    THEN Victim(TRUE, 0, ev)
    ELSE Victim(FALSE, ev.m_access_list[1].key, ev)

mru_remove_key(ev, k) ==
    IF k \in DOMAIN ev.m_key_to_iterator
    THEN [ev EXCEPT !.m_access_list = ListErase(@, ev.m_key_to_iterator[k]),
                    !.m_key_to_iterator = MapErase(@, k)]
    ELSE ev

\* ------------------------------------------------------------------------
\* fifo_eviction_policy
\* ------------------------------------------------------------------------
fifo_new == [alg |-> "fifo", m_insertion_queue |-> <<>>, m_key_exists |-> EmptyMap]

fifo_on_access(ev, k) == ev

fifo_on_insert(ev, k) ==
    [ev EXCEPT !.m_insertion_queue = Append(@, k),
               !.m_key_exists = MapPut(@, k, TRUE)]

fifo_on_update(ev, k) == ev

RECURSIVE fifo_select_victim(_)
fifo_select_victim(ev) ==
    IF ev.m_insertion_queue = <<>>
    THEN Victim(TRUE, 0, ev)
    ELSE LET candidate == Head(ev.m_insertion_queue)
             popped == [ev EXCEPT !.m_insertion_queue = Tail(@)]
         IN IF candidate \in DOMAIN ev.m_key_exists /\ ev.m_key_exists[candidate]
            THEN Victim(FALSE, candidate, popped)
            ELSE fifo_select_victim(popped)

fifo_remove_key(ev, k) ==
    IF k \in DOMAIN ev.m_key_exists
    THEN [ev EXCEPT !.m_key_exists = MapPut(@, k, FALSE)]
    ELSE ev

fifo_size(ev) == Cardinality({k \in DOMAIN ev.m_key_exists : ev.m_key_exists[k]})

fifo_empty(ev) == DOMAIN ev.m_key_exists = {}

\* ------------------------------------------------------------------------
\* lfu_eviction_policy
\* ------------------------------------------------------------------------
BucketAt(buckets, f) == IF f \in DOMAIN buckets THEN buckets[f] ELSE <<>>

BucketNodes(buckets) == UNION {ListNodes(buckets[f]) : f \in DOMAIN buckets}

lfu_new == [alg |-> "lfu", m_key_frequency |-> EmptyMap, m_frequency_buckets |-> EmptyMap, m_key_to_iterator |-> EmptyMap]

lfu_on_insert(ev, k) ==
    LET n == FreshNode(BucketNodes(ev.m_frequency_buckets), k)
    IN [ev EXCEPT !.m_key_frequency = MapPut(@, k, 1),
                  !.m_frequency_buckets = MapPut(@, 1, Append(BucketAt(@, 1), [key |-> k, node |-> n])),
                  !.m_key_to_iterator = MapPut(@, k, n)]

\* an increment that leaves the emptied bucket of the old counter in the map
lfu_increment_frequency_keeping(ev, k) ==
    IF k \in DOMAIN ev.m_key_frequency
    THEN LET old_frequency == ev.m_key_frequency[k]
             new_frequency == old_frequency + 1
             buckets == ev.m_frequency_buckets
             removed == IF old_frequency \in DOMAIN buckets /\ k \in DOMAIN ev.m_key_to_iterator
                        THEN MapPut(buckets, old_frequency,
                                    ListErase(buckets[old_frequency], ev.m_key_to_iterator[k]))
                        ELSE buckets
             n == FreshNode(BucketNodes(removed), k)
         IN [ev EXCEPT !.m_key_frequency = MapPut(@, k, new_frequency),
                       !.m_frequency_buckets = MapPut(removed, new_frequency,
                            Append(BucketAt(removed, new_frequency), [key |-> k, node |-> n])),
                       !.m_key_to_iterator = MapPut(@, k, n)]
    ELSE ev

lfu_increment_frequency(ev, k) ==
    IF k \in DOMAIN ev.m_key_frequency
    THEN LET old_frequency == ev.m_key_frequency[k]
             new_frequency == old_frequency + 1
             buckets == ev.m_frequency_buckets
             removed == IF old_frequency \in DOMAIN buckets /\ k \in DOMAIN ev.m_key_to_iterator
                        THEN LET l == ListErase(buckets[old_frequency], ev.m_key_to_iterator[k])
                             IN IF l = <<>> THEN MapErase(buckets, old_frequency)
                                ELSE MapPut(buckets, old_frequency, l)
                        ELSE buckets
             n == FreshNode(BucketNodes(removed), k)
         IN [ev EXCEPT !.m_key_frequency = MapPut(@, k, new_frequency),
                       !.m_frequency_buckets = MapPut(removed, new_frequency,
                            Append(BucketAt(removed, new_frequency), [key |-> k, node |-> n])),
                       !.m_key_to_iterator = MapPut(@, k, n)]
    ELSE ev

lfu_on_access(ev, k) == lfu_increment_frequency(ev, k)

\* an update that leaves the counter alone
lfu_on_update_uncounted(ev, k) == ev

lfu_on_update(ev, k) == lfu_increment_frequency(ev, k)

lfu_select_victim_back(ev) ==
    LET filled == {f \in DOMAIN ev.m_frequency_buckets : ev.m_frequency_buckets[f] # <<>>}
    IN IF filled = {}
       THEN Victim(TRUE, 0, ev)
       ELSE LET l == ev.m_frequency_buckets[Min(filled)] IN Victim(FALSE, l[Len(l)].key, ev)

lfu_select_victim(ev) ==
    LET filled == {f \in DOMAIN ev.m_frequency_buckets : ev.m_frequency_buckets[f] # <<>>}
    IN IF filled = {}
       THEN Victim(TRUE, 0, ev)
       ELSE Victim(FALSE, ev.m_frequency_buckets[Min(filled)][1].key, ev)

lfu_remove_key(ev, k) ==
    IF k \in DOMAIN ev.m_key_frequency
    THEN LET frequency == ev.m_key_frequency[k]
             buckets == ev.m_frequency_buckets
             found == frequency \in DOMAIN buckets /\ k \in DOMAIN ev.m_key_to_iterator
         IN [ev EXCEPT !.m_frequency_buckets =
                            IF found
                            THEN LET l == ListErase(buckets[frequency], ev.m_key_to_iterator[k])
                                 IN IF l = <<>> THEN MapErase(buckets, frequency)
                                    ELSE MapPut(buckets, frequency, l)
                            ELSE buckets,
                       !.m_key_to_iterator = IF found THEN MapErase(@, k) ELSE @,
                       !.m_key_frequency = MapErase(@, k)]
    ELSE ev

\* ------------------------------------------------------------------------
\* mfu_eviction_policy
\* ------------------------------------------------------------------------
mfu_new == [alg |-> "mfu", m_key_frequency |-> EmptyMap, m_frequency_buckets |-> EmptyMap, m_key_to_iterator |-> EmptyMap]

mfu_on_insert(ev, k) ==
    LET n == FreshNode(BucketNodes(ev.m_frequency_buckets), k)
    IN [ev EXCEPT !.m_key_frequency = MapPut(@, k, 1),
                  !.m_frequency_buckets = MapPut(@, 1, Append(BucketAt(@, 1), [key |-> k, node |-> n])),
                  !.m_key_to_iterator = MapPut(@, k, n)]

mfu_increment_frequency(ev, k) ==
    IF k \in DOMAIN ev.m_key_frequency
    THEN LET old_frequency == ev.m_key_frequency[k]
             new_frequency == old_frequency + 1
             buckets == ev.m_frequency_buckets
             removed == IF old_frequency \in DOMAIN buckets /\ k \in DOMAIN ev.m_key_to_iterator
                        THEN LET l == ListErase(buckets[old_frequency], ev.m_key_to_iterator[k])
                             IN IF l = <<>> THEN MapErase(buckets, old_frequency)
                                ELSE MapPut(buckets, old_frequency, l)
                        ELSE buckets
             n == FreshNode(BucketNodes(removed), k)
         IN [ev EXCEPT !.m_key_frequency = MapPut(@, k, new_frequency),
                       !.m_frequency_buckets = MapPut(removed, new_frequency,
                            Append(BucketAt(removed, new_frequency), [key |-> k, node |-> n])),
                       !.m_key_to_iterator = MapPut(@, k, n)]
    ELSE ev

mfu_on_access(ev, k) == mfu_increment_frequency(ev, k)

mfu_on_update(ev, k) == mfu_increment_frequency(ev, k)

\* a victim taken from the lowest bucket, as LFU does
mfu_select_victim_lowest(ev) ==
    LET filled == {f \in DOMAIN ev.m_frequency_buckets : ev.m_frequency_buckets[f] # <<>>}
    IN IF filled = {}
       THEN Victim(TRUE, 0, ev)
       ELSE Victim(FALSE, ev.m_frequency_buckets[Min(filled)][1].key, ev)

mfu_select_victim(ev) ==
    LET filled == {f \in DOMAIN ev.m_frequency_buckets : ev.m_frequency_buckets[f] # <<>>}
    IN IF filled = {}
       THEN Victim(TRUE, 0, ev)
       ELSE Victim(FALSE, ev.m_frequency_buckets[Max(filled)][1].key, ev)

mfu_remove_key(ev, k) ==
    IF k \in DOMAIN ev.m_key_frequency
    THEN LET frequency == ev.m_key_frequency[k]
             buckets == ev.m_frequency_buckets
             found == frequency \in DOMAIN buckets /\ k \in DOMAIN ev.m_key_to_iterator
         IN [ev EXCEPT !.m_frequency_buckets =
                            IF found
                            THEN LET l == ListErase(buckets[frequency], ev.m_key_to_iterator[k])
                                 IN IF l = <<>> THEN MapErase(buckets, frequency)
                                    ELSE MapPut(buckets, frequency, l)
                            ELSE buckets,
                       !.m_key_to_iterator = IF found THEN MapErase(@, k) ELSE @,
                       !.m_key_frequency = MapErase(@, k)]
    ELSE ev

\* ------------------------------------------------------------------------
\* random_eviction_policy; m_key_to_index holds 0-based vector indices
\* ------------------------------------------------------------------------
random_new == [alg |-> "random", m_keys |-> <<>>, m_key_to_index |-> EmptyMap]

random_on_access(ev, k) == ev

\* an insertion that records the new size instead of the new index
random_on_insert_one_based(ev, k) ==
    [ev EXCEPT !.m_keys = Append(@, k),
               !.m_key_to_index = MapPut(@, k, Len(ev.m_keys) + 1)]

random_on_insert(ev, k) ==
    [ev EXCEPT !.m_keys = Append(@, k),
               !.m_key_to_index = MapPut(@, k, Len(ev.m_keys))]

random_on_update(ev, k) == ev

\* r is the value returned by std::rand()
random_select_victim(ev, r) ==
    IF ev.m_keys = <<>>
    THEN Victim(TRUE, 0, ev)
    ELSE Victim(FALSE, ev.m_keys[(r % Len(ev.m_keys)) + 1], ev)

random_remove_key(ev, k) ==
    IF k \in DOMAIN ev.m_key_to_index
    THEN LET key_index == ev.m_key_to_index[k]
             last_index == Len(ev.m_keys) - 1
             last_key == ev.m_keys[last_index + 1]
             swapped == IF key_index # last_index
                        THEN [ev EXCEPT !.m_keys = [@ EXCEPT ![key_index + 1] = last_key],
                                        !.m_key_to_index = MapPut(@, last_key, key_index)]
                        ELSE ev
         IN [swapped EXCEPT !.m_keys = SubSeq(@, 1, Len(@) - 1),
                            !.m_key_to_index = MapErase(@, k)]
    ELSE ev

\* std::srand and std::rand: the generator is one state per process, g; the
\* model keeps it modulo the number of values it lets std::rand() return
rand_seeded(seed) == seed % Cardinality(RandValues)

rand_advanced(g) == (g + 1) % Cardinality(RandValues)

\* the values of the next n calls of std::rand() from state g
RECURSIVE rand_values(_, _)
rand_values(g, n) ==
    IF n = 0 THEN <<>> ELSE <<rand_advanced(g)>> \o rand_values(rand_advanced(g), n - 1)

RECURSIVE rand_after(_, _)
rand_after(g, n) == IF n = 0 THEN g ELSE rand_after(rand_advanced(g), n - 1)

\* ------------------------------------------------------------------------
\* eviction_policy_base: virtual dispatch on the policy's dynamic type
\* ------------------------------------------------------------------------
eviction_new(alg) ==
    CASE alg = "lru" -> lru_new
      [] alg = "mru" -> mru_new
      [] alg = "fifo" -> fifo_new
      [] alg = "lfu" -> lfu_new
      [] alg = "mfu" -> mfu_new
      [] alg = "random" -> random_new

on_access(ev, k) ==
    CASE ev.alg = "lru" -> lru_on_access(ev, k)
      [] ev.alg = "mru" -> mru_on_access(ev, k)
      [] ev.alg = "fifo" -> fifo_on_access(ev, k)
      [] ev.alg = "lfu" -> lfu_on_access(ev, k)
      [] ev.alg = "mfu" -> mfu_on_access(ev, k)
      [] ev.alg = "random" -> random_on_access(ev, k)

on_insert(ev, k) ==
    CASE ev.alg = "lru" -> lru_on_insert(ev, k)
      [] ev.alg = "mru" -> mru_on_insert(ev, k)
      [] ev.alg = "fifo" -> fifo_on_insert(ev, k)
      [] ev.alg = "lfu" -> lfu_on_insert(ev, k)
      [] ev.alg = "mfu" -> mfu_on_insert(ev, k)
      [] ev.alg = "random" -> random_on_insert(ev, k)

on_update(ev, k) ==
    CASE ev.alg = "lru" -> lru_on_update(ev, k)
      [] ev.alg = "mru" -> mru_on_update(ev, k)
      [] ev.alg = "fifo" -> fifo_on_update(ev, k)
      [] ev.alg = "lfu" -> lfu_on_update(ev, k)
      [] ev.alg = "mfu" -> mfu_on_update(ev, k)
      [] ev.alg = "random" -> random_on_update(ev, k)

select_victim(ev, r) ==
    CASE ev.alg = "lru" -> lru_select_victim(ev)
      [] ev.alg = "mru" -> mru_select_victim(ev)
      [] ev.alg = "fifo" -> fifo_select_victim(ev)
      [] ev.alg = "lfu" -> lfu_select_victim(ev)
      [] ev.alg = "mfu" -> mfu_select_victim(ev)
      [] ev.alg = "random" -> random_select_victim(ev, r)

remove_key(ev, k) ==
    CASE ev.alg = "lru" -> lru_remove_key(ev, k)
      [] ev.alg = "mru" -> mru_remove_key(ev, k)
      [] ev.alg = "fifo" -> fifo_remove_key(ev, k)
      [] ev.alg = "lfu" -> lfu_remove_key(ev, k)
      [] ev.alg = "mfu" -> mfu_remove_key(ev, k)
      [] ev.alg = "random" -> random_remove_key(ev, k)

eviction_size(ev) ==
    CASE ev.alg \in {"lru", "mru"} -> Len(ev.m_access_list)
      [] ev.alg = "fifo" -> fifo_size(ev)
      [] ev.alg \in {"lfu", "mfu"} -> Cardinality(DOMAIN ev.m_key_frequency)
      [] ev.alg = "random" -> Len(ev.m_keys)

eviction_empty(ev) ==
    CASE ev.alg \in {"lru", "mru"} -> ev.m_access_list = <<>>
      [] ev.alg = "fifo" -> fifo_empty(ev)
      [] ev.alg \in {"lfu", "mfu"} -> DOMAIN ev.m_key_frequency = {}
      [] ev.alg = "random" -> ev.m_keys = <<>>

\* a clear that leaves the tracked keys in place
eviction_clear_nothing(ev) == ev

eviction_clear(ev) == eviction_new(ev.alg)

\* ------------------------------------------------------------------------
\* capacity policies
\* ------------------------------------------------------------------------
dynamic_default_min_capacity == 10

dynamic_default_max_capacity == 1000

\* soft_capacity_policy::default_overage_tolerance (0.2), in percent
default_overage_tolerance == 20

fixed_new(n) == [kind |-> "fixed", m_capacity |-> n]

dynamic_new(n) ==
    [kind |-> "dynamic", m_base_capacity |-> n, m_current_capacity |-> n,
     m_min_capacity |-> dynamic_default_min_capacity,
     m_max_capacity |-> dynamic_default_max_capacity]

\* the factors are doubles; the model counts them in hundredths
FactorUnit == 100

default_growth_factor == 150

default_shrink_factor == 75

min_shrink_factor == 10

\* the constructor stores its arguments as they come
dynamic_constructed(p_base_capacity, p_min_capacity, p_max_capacity, p_growth_factor, p_shrink_factor) ==
    [kind |-> "dynamic", m_base_capacity |-> p_base_capacity,
     m_current_capacity |-> p_base_capacity,
     m_min_capacity |-> p_min_capacity, m_max_capacity |-> p_max_capacity,
     m_growth_factor |-> p_growth_factor, m_shrink_factor |-> p_shrink_factor]

dynamic_set_growth_parameters(cp, p_growth_factor, p_shrink_factor) ==
    [cp EXCEPT !.m_growth_factor = Max({FactorUnit, p_growth_factor}),
               !.m_shrink_factor = Max({min_shrink_factor, Min({p_shrink_factor, FactorUnit})})]

dynamic_set_capacity_bounds(cp, p_min_capacity, p_max_capacity) ==
    LET new_min == Max({1, p_min_capacity})
        new_max == Max({new_min, p_max_capacity})
    IN [cp EXCEPT !.m_min_capacity = new_min,
                  !.m_max_capacity = new_max,
                  !.m_current_capacity = Max({new_min, Min({@, new_max})})]

\* soft_capacity_policy; m_overage_tolerance is kept in percent, and
\* soft_max_capacity is the truncation of target * (1.0 + tolerance): for the
\* targets and tolerances used here the double product is exact to well
\* within the distance to the next integer
soft_max_capacity(p_target_capacity, p_tolerance) ==
    (p_target_capacity * (100 + p_tolerance)) \div 100

soft_new(n) ==
    [kind |-> "soft", m_target_capacity |-> n,
     m_max_capacity |-> soft_max_capacity(n, default_overage_tolerance),
     m_overage_tolerance |-> default_overage_tolerance]

soft_set_overage_tolerance(cp, p_tolerance) ==
    LET clamped == Max({0, Min({p_tolerance, 100})})
    IN [cp EXCEPT !.m_overage_tolerance = clamped,
                  !.m_max_capacity = soft_max_capacity(cp.m_target_capacity, clamped)]

\* memory_capacity_policy; m_current_memory_usage, a cache of the last
\* estimate that no decision reads, is left out
memory_new(p_memory_limit, p_item_size_estimate) ==
    [kind |-> "memory", m_memory_limit |-> p_memory_limit,
     m_item_size_estimate |-> p_item_size_estimate]

capacity(cp) ==
    CASE cp.kind = "fixed" -> cp.m_capacity
      [] cp.kind = "dynamic" -> cp.m_current_capacity
      [] cp.kind = "soft" -> cp.m_target_capacity
      [] cp.kind = "memory" ->
            IF cp.m_item_size_estimate > 0
            THEN cp.m_memory_limit \div cp.m_item_size_estimate ELSE 0

\* a soft policy that moves its target and keeps the old hard maximum
set_capacity_target_only(cp, p_new_capacity) ==
    CASE cp.kind = "fixed" -> [cp EXCEPT !.m_capacity = p_new_capacity]
      [] cp.kind = "dynamic" ->
            [cp EXCEPT !.m_base_capacity = p_new_capacity,
                       !.m_current_capacity = Max({cp.m_min_capacity, Min({p_new_capacity, cp.m_max_capacity})})]
      [] cp.kind = "soft" -> [cp EXCEPT !.m_target_capacity = p_new_capacity]
      [] cp.kind = "memory" ->
            [cp EXCEPT !.m_memory_limit = p_new_capacity * cp.m_item_size_estimate]

set_capacity(cp, p_new_capacity) ==
    CASE cp.kind = "fixed" -> [cp EXCEPT !.m_capacity = p_new_capacity]
      [] cp.kind = "dynamic" ->
            [cp EXCEPT !.m_base_capacity = p_new_capacity,
                       !.m_current_capacity = Max({cp.m_min_capacity, Min({p_new_capacity, cp.m_max_capacity})})]
      [] cp.kind = "soft" ->
            [cp EXCEPT !.m_target_capacity = p_new_capacity,
                       !.m_max_capacity = soft_max_capacity(p_new_capacity, cp.m_overage_tolerance)]
      [] cp.kind = "memory" ->
            [cp EXCEPT !.m_memory_limit = p_new_capacity * cp.m_item_size_estimate]

needs_eviction_above(cp, p_current_size) ==
    CASE cp.kind = "fixed" -> p_current_size > cp.m_capacity
      [] cp.kind = "dynamic" -> p_current_size > cp.m_current_capacity
      [] cp.kind = "soft" -> p_current_size > cp.m_max_capacity
      [] cp.kind = "memory" ->
            p_current_size * cp.m_item_size_estimate > cp.m_memory_limit

needs_eviction(cp, p_current_size) ==
    CASE cp.kind = "fixed" -> p_current_size >= cp.m_capacity
      [] cp.kind = "dynamic" -> p_current_size >= cp.m_current_capacity
      [] cp.kind = "soft" -> p_current_size >= cp.m_max_capacity
      [] cp.kind = "memory" ->
            p_current_size * cp.m_item_size_estimate >= cp.m_memory_limit

eviction_count_exact(cp, p_current_size) ==
    CASE cp.kind = "fixed" ->
            IF p_current_size >= cp.m_capacity THEN p_current_size - cp.m_capacity ELSE 0
      [] cp.kind = "dynamic" ->
            IF p_current_size >= cp.m_current_capacity
            THEN p_current_size - cp.m_current_capacity ELSE 0
      [] cp.kind = "soft" ->
            IF p_current_size >= cp.m_max_capacity
            THEN p_current_size - cp.m_target_capacity ELSE 0
      [] cp.kind = "memory" ->
            IF p_current_size * cp.m_item_size_estimate >= cp.m_memory_limit
            THEN (p_current_size * cp.m_item_size_estimate - cp.m_memory_limit)
                     \div cp.m_item_size_estimate
            ELSE 0

eviction_count(cp, p_current_size) ==
    CASE cp.kind = "fixed" ->
            IF p_current_size >= cp.m_capacity THEN (p_current_size - cp.m_capacity) + 1 ELSE 0
      [] cp.kind = "dynamic" ->
            IF p_current_size >= cp.m_current_capacity
            THEN (p_current_size - cp.m_current_capacity) + 1 ELSE 0
      [] cp.kind = "soft" ->
            IF p_current_size >= cp.m_max_capacity
            THEN (p_current_size - cp.m_target_capacity) + 1
            ELSE IF p_current_size > cp.m_target_capacity THEN 1 ELSE 0
      [] cp.kind = "memory" ->
            LET estimated_usage == p_current_size * cp.m_item_size_estimate
                excess_memory == (estimated_usage - cp.m_memory_limit) + cp.m_item_size_estimate
            IN IF estimated_usage >= cp.m_memory_limit
               THEN (excess_memory + cp.m_item_size_estimate - 1) \div cp.m_item_size_estimate
               ELSE 0

\* ------------------------------------------------------------------------
\* hash_storage_policy
\* ------------------------------------------------------------------------
storage_contains(st, k) == k \in DOMAIN st

storage_size(st) == Cardinality(DOMAIN st)

storage_empty(st) == DOMAIN st = {}

storage_insert_if_absent(st, k, v) == IF k \in DOMAIN st THEN st ELSE MapPut(st, k, v)

storage_insert(st, k, v) == MapPut(st, k, v)

storage_erase(st, k) == MapErase(st, k)

\* ------------------------------------------------------------------------
\* debug_storage_policy around hash_storage_policy: sp is the wrapper's own
\* state, its three counters; a cache on hash_storage_policy has none
\* ------------------------------------------------------------------------
hash_storage_new == [kind |-> "hash"]

debug_storage_new ==
    [kind |-> "debug", m_operation_count |-> 0, m_hit_count |-> 0, m_miss_count |-> 0]

\* insert, erase and clear
storage_counted(sp) ==
    IF sp.kind = "debug" THEN [sp EXCEPT !.m_operation_count = @ + 1] ELSE sp

\* find and contains; hit is what the wrapped policy answers
storage_looked_up(sp, hit) ==
    IF sp.kind = "debug"
    THEN [sp EXCEPT !.m_operation_count = @ + 1,
                    !.m_hit_count = IF hit THEN @ + 1 ELSE @,
                    !.m_miss_count = IF hit THEN @ ELSE @ + 1]
    ELSE sp

\* ------------------------------------------------------------------------
\* access policies: update_on_access_policy, no_update_on_access_policy,
\* threshold_access_policy
\* ------------------------------------------------------------------------
default_access(alg) ==
    IF alg \in {"fifo", "random"} THEN "no_update_on_access" ELSE "update_on_access"

access_new(alg) == [kind |-> default_access(alg)]

default_threshold == 2

\* threshold_access_policy(p_threshold)
threshold_new(p_threshold) ==
    [kind |-> "threshold", m_access_counts |-> EmptyMap, m_threshold |-> p_threshold]

threshold_set_threshold(ap, p_threshold) == [ap EXCEPT !.m_threshold = p_threshold]

threshold_access_count(ap, k) ==
    IF k \in DOMAIN ap.m_access_counts THEN ap.m_access_counts[k] ELSE 0

\* the policy after on_access(k): ++m_access_counts[p_key]
access_counted(ap, k) ==
    CASE ap.kind = "threshold" ->
             [ap EXCEPT !.m_access_counts = MapPut(@, k, threshold_access_count(ap, k) + 1)]
      [] OTHER -> ap

\* threshold_access_policy::on_access with the comparison ==
access_on_access_once(ap, k) ==
    CASE ap.kind = "update_on_access" -> TRUE
      [] ap.kind = "no_update_on_access" -> FALSE
      [] ap.kind = "threshold" -> threshold_access_count(access_counted(ap, k), k) = ap.m_threshold

\* what on_access(k) returns
access_on_access(ap, k) ==
    CASE ap.kind = "update_on_access" -> TRUE
      [] ap.kind = "no_update_on_access" -> FALSE
      [] ap.kind = "threshold" -> threshold_access_count(access_counted(ap, k), k) >= ap.m_threshold

\* ------------------------------------------------------------------------
\* policy_based_cache; C = [st, ev, ap, cp, evicted, thrown, value,
\* was_erased] is the facade's four policies, the keys evicted by the running
\* operation and what it returns or throws; rs are the values std::rand()
\* returns to the successive select_victim calls
\* ------------------------------------------------------------------------
RECURSIVE evict_entries(_, _, _, _)
evict_entries(C, p_count, idx_for, rs) ==
    IF idx_for < p_count /\ ~storage_empty(C.st)
    THEN LET sv == select_victim(C.ev, rs[idx_for + 1])
         IN IF sv.thrown
            THEN [C EXCEPT !.ev = sv.ev]
            ELSE IF storage_contains(C.st, sv.key)
                 THEN evict_entries([C EXCEPT !.st = storage_erase(@, sv.key),
                                              !.sp = storage_counted(@),
                                              !.ev = remove_key(sv.ev, sv.key),
                                              !.evicted = Append(@, sv.key)],
                                    p_count, idx_for + 1, rs)
                 ELSE [C EXCEPT !.ev = sv.ev, !.sp = storage_counted(@)]
    ELSE C

evict_if_necessary_for_insertion(C, rs) ==
    LET current_size == storage_size(C.st)
    IN IF needs_eviction(C.cp, current_size)
       THEN evict_entries(C, eviction_count(C.cp, current_size), 0, rs)
       ELSE C

\* removing a single entry whatever eviction_count asks for
evict_one_for_capacity_change(C, rs) ==
    LET current_size == storage_size(C.st)
    IN IF needs_eviction(C.cp, current_size)
       THEN evict_entries(C, 1, 0, rs)
       ELSE C

evict_if_necessary_for_capacity_change(C, rs) ==
    LET current_size == storage_size(C.st)
    IN IF needs_eviction(C.cp, current_size)
       THEN evict_entries(C, eviction_count(C.cp, current_size), 0, rs)
       ELSE C

\* making room before it is known whether the key is new
cache_put_evicting(C, k, v, rs) ==
    LET is_new_key == ~storage_contains(C.st, k)
        E == evict_if_necessary_for_insertion(C, rs)
    IN IF is_new_key
       THEN [E EXCEPT !.st = storage_insert(@, k, v), !.ev = on_insert(@, k)]
       ELSE [E EXCEPT !.st = storage_insert(@, k, v), !.ev = on_update(@, k)]

cache_put(C, k, v, rs) ==
    LET is_new_key == ~storage_contains(C.st, k)
        looked == [C EXCEPT !.sp = storage_looked_up(@, ~is_new_key)]
    IN IF is_new_key
       THEN LET E == evict_if_necessary_for_insertion(looked, rs)
            IN [E EXCEPT !.st = storage_insert(@, k, v), !.sp = storage_counted(@),
                         !.ev = on_insert(@, k)]
       ELSE [looked EXCEPT !.st = storage_insert(@, k, v), !.sp = storage_counted(@),
                           !.ev = on_update(@, k)]

\* a lookup through operator[] would create the entry of an absent key
cache_get_creating(C, k) ==
    IF storage_contains(C.st, k)
    THEN [C EXCEPT !.ev = IF access_on_access(C.ap, k) THEN on_access(@, k) ELSE @,
                   !.value = C.st[k]]
    ELSE [C EXCEPT !.st = storage_insert(@, k, NoValue), !.thrown = TRUE]

\* thrown: std::out_of_range
cache_get(C, k) ==
    IF storage_contains(C.st, k)
    THEN [C EXCEPT !.sp = storage_looked_up(@, TRUE),
                   !.ev = IF access_on_access(C.ap, k) THEN on_access(@, k) ELSE @,
                   !.ap = access_counted(@, k),
                   !.value = C.st[k]]
    ELSE [C EXCEPT !.sp = storage_looked_up(@, FALSE), !.thrown = TRUE]

\* a contains that asks by way of get
cache_contains_touching(C, k) ==
    [cache_get(C, k) EXCEPT !.found = storage_contains(C.st, k), !.thrown = FALSE,
                            !.value = NoValue]

cache_contains(C, k) ==
    [C EXCEPT !.sp = storage_looked_up(@, storage_contains(C.st, k)),
              !.found = storage_contains(C.st, k)]

cache_set_capacity(C, p_new_capacity, rs) ==
    evict_if_necessary_for_capacity_change([C EXCEPT !.cp = set_capacity(@, p_new_capacity)], rs)

cache_clear_storage_only(C) == [C EXCEPT !.st = EmptyMap]

cache_clear(C) ==
    [C EXCEPT !.st = EmptyMap, !.sp = storage_counted(@), !.ev = eviction_clear(@)]

\* erasing from storage without telling the eviction policy
cache_erase_unnotified(C, k) ==
    IF storage_contains(C.st, k)
    THEN [C EXCEPT !.st = storage_erase(@, k), !.was_erased = TRUE]
    ELSE C

cache_erase(C, k) ==
    IF storage_contains(C.st, k)
    THEN [C EXCEPT !.st = storage_erase(@, k), !.sp = storage_counted(@),
                   !.ev = remove_key(@, k), !.was_erased = TRUE]
    ELSE [C EXCEPT !.sp = storage_counted(@)]

\* ------------------------------------------------------------------------
\* legacy cache<key_t, value_t, algorithm::lru> and algorithm::mru;
\* L = [m_list, m_map, m_capacity, evicted, thrown, value],
\* m_map[k] = (value, iterator)
\* ------------------------------------------------------------------------
legacy_push_front(L, k, v) ==
    LET n == FreshNode(ListNodes(L.m_list), k)
    IN [L EXCEPT !.m_list = <<[key |-> k, node |-> n]>> \o @,
                 !.m_map = MapPut(@, k, [first |-> v, second |-> n])]

\* a cache of size >= m_capacity >= 1 has a last and a first list node; the
\* branch is not taken on an empty list, where back() and front() are undefined
legacy_lru_put(L, k, v) ==
    LET made_room ==
            IF k \in DOMAIN L.m_map
            THEN [L EXCEPT !.m_list = ListErase(@, L.m_map[k].second)]
            ELSE IF Cardinality(DOMAIN L.m_map) >= L.m_capacity /\ L.m_list # <<>>
                 THEN LET back == L.m_list[Len(L.m_list)].key
                      IN [L EXCEPT !.m_map = MapErase(@, back),
                                   !.m_list = SubSeq(@, 1, Len(@) - 1),
                                   !.evicted = Append(@, back)]
                 ELSE L
    IN legacy_push_front(made_room, k, v)

legacy_mru_put(L, k, v) ==
    LET made_room ==
            IF k \in DOMAIN L.m_map
            THEN [L EXCEPT !.m_list = ListErase(@, L.m_map[k].second)]
            ELSE IF Cardinality(DOMAIN L.m_map) >= L.m_capacity /\ L.m_list # <<>>
                 THEN LET front == L.m_list[1].key
                      IN [L EXCEPT !.m_map = MapErase(@, front),
                                   !.m_list = Tail(@),
                                   !.evicted = Append(@, front)]
                 ELSE L
    IN legacy_push_front(made_room, k, v)

\* cache<.., algorithm::fifo>: m_map[k] is the value, and L.m_list stands
\* for m_queue.  size >= m_capacity >= 1 means a queue with a front.
legacy_fifo_put_keeping(L, k, v) ==
    IF k \in DOMAIN L.m_map
    THEN [L EXCEPT !.m_map = MapPut(@, k, v)]
    ELSE [L EXCEPT !.m_map = MapPut(@, k, v), !.m_list = Append(@, k)]

legacy_fifo_put(L, k, v) ==
    IF k \in DOMAIN L.m_map
    THEN [L EXCEPT !.m_map = MapPut(@, k, v)]
    ELSE LET made_room ==
                 IF Cardinality(DOMAIN L.m_map) >= L.m_capacity
                 THEN [L EXCEPT !.m_map = MapErase(@, Head(L.m_list)),
                                !.m_list = Tail(@),
                                !.evicted = Append(@, Head(L.m_list))]
                 ELSE L
         IN [made_room EXCEPT !.m_map = MapPut(@, k, v), !.m_list = Append(@, k)]

\* cache<.., algorithm::lfu> and <.., algorithm::mfu>: m_map[k] = (value,
\* frequency), and L.m_list stands for m_freq_map, the lists of keys by
\* frequency.  The frequency of a stored key goes up by one:
legacy_count(L, k) ==
    LET freq == L.m_map[k].second
        removed == SeqRemove(L.m_list[freq], k)
        erased == IF removed = <<>> THEN MapErase(L.m_list, freq) ELSE MapPut(L.m_list, freq, removed)
        next == IF freq + 1 \in DOMAIN erased THEN erased[freq + 1] ELSE <<>>
    IN [L EXCEPT !.m_map = MapPut(@, k, [first |-> @[k].first, second |-> freq + 1]),
                 !.m_list = MapPut(erased, freq + 1, Append(next, k))]

\* the new entry starts in the list of frequency 1
legacy_push_counted(L, k, v) ==
    [L EXCEPT !.m_map = MapPut(@, k, [first |-> v, second |-> 1]),
              !.m_list = MapPut(@, 1, Append(IF 1 \in DOMAIN @ THEN @[1] ELSE <<>>, k))]

\* the front key of the list of frequency freq leaves the cache
legacy_evict_counted(L, freq) ==
    LET victim == Head(L.m_list[freq])
    IN [L EXCEPT !.m_map = MapErase(@, victim),
                 !.m_list = IF Tail(@[freq]) = <<>> THEN MapErase(@, freq)
                            ELSE MapPut(@, freq, Tail(@[freq])),
                 !.evicted = Append(@, victim)]

legacy_lfu_put(L, k, v) ==
    IF L.m_capacity = 0 THEN L
    ELSE IF k \in DOMAIN L.m_map
    THEN legacy_count([L EXCEPT !.m_map = MapPut(@, k, [first |-> v, second |-> @[k].second])], k)
    ELSE legacy_push_counted(IF Cardinality(DOMAIN L.m_map) >= L.m_capacity
                             THEN legacy_evict_counted(L, Min(DOMAIN L.m_list))
                             ELSE L, k, v)

legacy_mfu_put(L, k, v) ==
    IF L.m_capacity = 0 THEN L
    ELSE IF k \in DOMAIN L.m_map
    THEN legacy_count([L EXCEPT !.m_map = MapPut(@, k, [first |-> v, second |-> @[k].second])], k)
    ELSE legacy_push_counted(IF Cardinality(DOMAIN L.m_map) >= L.m_capacity
                             THEN legacy_evict_counted(L, Max(DOMAIN L.m_list))
                             ELSE L, k, v)

\* cache<.., algorithm::random_cache>: m_map[k] = (value, index), L.m_list
\* stands for m_keys, r is the value of std::rand()
legacy_random_put(L, k, v, r) ==
    IF k \in DOMAIN L.m_map
    THEN [L EXCEPT !.m_map = MapPut(@, k, [first |-> v, second |-> @[k].second])]
    ELSE LET made_room ==
                 IF Cardinality(DOMAIN L.m_map) >= L.m_capacity /\ L.m_list # <<>>
                 THEN LET random_index == r % Len(L.m_list)
                          victim_key == L.m_list[random_index + 1]
                          last_key == L.m_list[Len(L.m_list)]
                          swapped == IF random_index < Len(L.m_list) - 1
                                     THEN [L EXCEPT !.m_list[random_index + 1] = last_key,
                                                    !.m_map[last_key].second = random_index]
                                     ELSE L
                      IN [swapped EXCEPT !.m_list = SubSeq(@, 1, Len(@) - 1),
                                         !.m_map = MapErase(@, victim_key),
                                         !.evicted = Append(@, victim_key)]
                 ELSE L
         IN [made_room EXCEPT !.m_map = MapPut(@, k, [first |-> v, second |-> Len(made_room.m_list)]),
                              !.m_list = Append(@, k)]

legacy_put(alg, L, k, v) ==
    CASE alg = "lru" -> legacy_lru_put(L, k, v)
      [] alg = "mru" -> legacy_mru_put(L, k, v)
      [] alg = "fifo" -> legacy_fifo_put(L, k, v)
      [] alg = "lfu" -> legacy_lfu_put(L, k, v)
      [] alg = "mfu" -> legacy_mfu_put(L, k, v)

\* get is the same code in LRU and MRU, and in LFU and MFU; FIFO and RANDOM
\* only look the key up
legacy_get(L, k) ==
    IF k \in DOMAIN L.m_map
    THEN CASE L.alg \in {"lru", "mru"} ->
                  [L EXCEPT !.m_list = ListSpliceFront(@, L.m_map[k].second),
                            !.value = L.m_map[k].first]
           [] L.alg \in {"lfu", "mfu"} -> [legacy_count(L, k) EXCEPT !.value = L.m_map[k].first]
           [] L.alg = "fifo" -> [L EXCEPT !.value = L.m_map[k]]
           [] L.alg = "random" -> [L EXCEPT !.value = L.m_map[k].first]
    ELSE [L EXCEPT !.thrown = TRUE]

legacy_clear(L) == [L EXCEPT !.m_map = EmptyMap, !.m_list = <<>>]

LegacyAlgorithms == {"lru", "mru"}

\* ------------------------------------------------------------------------
\* State
\* ------------------------------------------------------------------------
VARIABLES
    impl,               \* "policy": policy_based_cache, "legacy": cache<K, V, algorithm>
    algorithm,          \* the eviction algorithm of the cache
    m_storage,          \* hash_storage_policy::m_storage
    m_statistics,       \* debug_storage_policy: the counters around the wrapped storage
    m_eviction_policy,  \* policy_based_cache::m_eviction_policy
    m_access_policy,    \* policy_based_cache::m_access_policy
    m_capacity_policy,  \* policy_based_cache::m_capacity_policy
    m_list,             \* legacy cache: m_list (m_queue, m_freq_map, m_keys in SpecLegacy)
    m_map,              \* legacy cache: m_map
    m_capacity,         \* legacy cache: m_capacity
    touchOrder,         \* history: present keys, most recently touched first (LRU, MRU)
    insOrder,           \* history: present keys, earliest inserted entry first (FIFO)
    reachOrder,         \* history: present keys by counter, then by when it was reached (LFU, MFU)
    runs                \* two program runs side by side, each with its std::rand() state;
                        \* a history of calls in SpecThreshold and SpecLegacy; <<>> elsewhere

vars == <<impl, algorithm, m_storage, m_statistics, m_eviction_policy, m_access_policy, m_capacity_policy,
          m_list, m_map, m_capacity, touchOrder, insOrder, reachOrder, runs>>

policyVars == <<m_storage, m_statistics, m_eviction_policy, m_access_policy, m_capacity_policy>>

legacyVars == <<m_list, m_map, m_capacity>>

Facade == [st |-> m_storage, sp |-> m_statistics, ev |-> m_eviction_policy,
           ap |-> m_access_policy, cp |-> m_capacity_policy, evicted |-> <<>>, thrown |-> FALSE,
           value |-> NoValue, was_erased |-> FALSE, found |-> FALSE]

Legacy == [alg |-> algorithm, m_list |-> m_list, m_map |-> m_map, m_capacity |-> m_capacity, evicted |-> <<>>,
           thrown |-> FALSE, value |-> NoValue]

\* the keys the eviction policy tracks: those select_victim can return
TrackedKeys(ev) ==
    CASE ev.alg \in {"lru", "mru"} -> Range(ListKeys(ev.m_access_list))
      [] ev.alg = "fifo" ->
            {k \in Range(ev.m_insertion_queue) : k \in DOMAIN ev.m_key_exists /\ ev.m_key_exists[k]}
      [] ev.alg \in {"lfu", "mfu"} -> DOMAIN ev.m_key_frequency
      [] ev.alg = "random" -> Range(ev.m_keys)

\* the keys in the order in which repeated eviction would remove them
RECURSIVE DrainOrder(_)
DrainOrder(ev) ==
    LET sv == select_victim(ev, 0)
    IN IF sv.thrown THEN <<>> ELSE <<sv.key>> \o DrainOrder(remove_key(sv.ev, sv.key))

\* the public queries of either cache
PresentKeys == IF impl = "policy" THEN DOMAIN m_storage ELSE DOMAIN m_map

Size == Cardinality(PresentKeys)

Capacity == IF impl = "policy" THEN capacity(m_capacity_policy) ELSE m_capacity

ValueOf(k) == IF impl = "policy" THEN m_storage[k] ELSE m_map[k].first

\* capacity policies a cache is constructed with: fixed, dynamic with the
\* default bounds, dynamic with bounds set on the new cache (as
\* make_adaptive_cache does)
InitialCapacityPolicies ==
    {fixed_new(n) : n \in Capacities}
    \cup {dynamic_new(n) : n \in Capacities}
    \cup {dynamic_set_capacity_bounds(dynamic_new(n), 1, MaxCap) : n \in Capacities}

Init ==
    /\ impl \in {"policy", "legacy"}
    /\ algorithm \in (IF impl = "policy" THEN Algorithms ELSE LegacyAlgorithms)
    /\ m_storage = EmptyMap
    /\ m_statistics = hash_storage_new
    /\ m_eviction_policy = eviction_new(algorithm)
    /\ m_access_policy = access_new(algorithm)
    /\ m_capacity_policy \in (IF impl = "policy" THEN InitialCapacityPolicies ELSE {fixed_new(0)})
    /\ m_list = <<>>
    /\ m_map = EmptyMap
    /\ m_capacity \in (IF impl = "legacy" THEN Capacities ELSE {0})
    /\ touchOrder = <<>>
    /\ insOrder = <<>>
    /\ reachOrder = <<>>
    /\ runs = <<>>

\* ------------------------------------------------------------------------
\* History of the public operations, kept next to the caches
\* ------------------------------------------------------------------------
SeqWithout(s, gone) == SelectSeq(s, LAMBDA e : e \notin gone)

\* the keys of s grouped by their counter in ev, each group in the order of s
ByCounter(s, ev) ==
    LET f == ev.m_key_frequency
        RECURSIVE Groups(_)
        Groups(c) == IF c > MaxFreq + 1 THEN <<>>
                     ELSE SelectSeq(s, LAMBDA x : x \in DOMAIN f /\ f[x] = c) \o Groups(c + 1)
    IN Groups(1)

Removed(gone) ==
    /\ touchOrder' = SeqWithout(touchOrder, gone)
    /\ insOrder' = SeqWithout(insOrder, gone)
    /\ reachOrder' = SeqWithout(reachOrder, gone)

\* put(k, v) has stored k after evicting the keys gone
Stored(k, existed, gone) ==
    /\ touchOrder' = IF algorithm \in {"lru", "mru"}
                     THEN <<k>> \o SeqWithout(touchOrder, gone \cup {k}) ELSE <<>>
    /\ insOrder' = IF algorithm = "fifo"
                   THEN (IF existed THEN insOrder ELSE Append(SeqWithout(insOrder, gone), k))
                   ELSE <<>>
    /\ reachOrder' = IF impl = "policy" /\ algorithm \in {"lfu", "mfu"}
                     THEN ByCounter(Append(SeqWithout(reachOrder, gone \cup {k}), k),
                                    m_eviction_policy')
                     ELSE <<>>

\* get(k) has returned the value of k
Hit(k) ==
    /\ touchOrder' = IF algorithm \in {"lru", "mru"}
                     THEN <<k>> \o SeqWithout(touchOrder, {k}) ELSE <<>>
    /\ insOrder' = insOrder
    /\ reachOrder' = IF impl = "policy" /\ algorithm \in {"lfu", "mfu"}
                     THEN ByCounter(Append(SeqWithout(reachOrder, {k}), k), m_eviction_policy')
                     ELSE <<>>

\* the values std::rand() may return to the select_victim calls of an
\* operation that evicts from a cache of the given size under policy cp
RandSeqs(cp, size) ==
    LET draws == IF needs_eviction(cp, size) THEN Min({eviction_count(cp, size), size}) ELSE 0
    IN IF algorithm = "random" THEN [1..draws -> RandValues] ELSE {[i \in 1..draws |-> 0]}

\* the model follows a key's counter up to MaxFreq and a queue up to MaxQueue
CounterBelowBound(k) ==
    (impl = "policy" /\ algorithm \in {"lfu", "mfu"} /\ k \in DOMAIN m_eviction_policy.m_key_frequency)
        => m_eviction_policy.m_key_frequency[k] < MaxFreq

QueueWithinBound(ev) ==
    (ev.alg = "fifo") => Len(ev.m_insertion_queue) <= MaxQueue

\* what put(k, v) may leave behind, one outcome per run of std::rand()
PutOutcomes(k, v) ==
    {cache_put(Facade, k, v, rs) : rs \in RandSeqs(m_capacity_policy, storage_size(m_storage))}

\* what set_capacity(n) may leave behind
SetCapacityOutcomes(n) ==
    {cache_set_capacity(Facade, n, rs) :
        rs \in RandSeqs(set_capacity(m_capacity_policy, n), storage_size(m_storage))}

\* ------------------------------------------------------------------------
\* Public operations of policy_based_cache
\* ------------------------------------------------------------------------
Put(k, v) ==
    /\ impl = "policy"
    /\ CounterBelowBound(k)
    /\ \E C \in PutOutcomes(k, v) :
          /\ QueueWithinBound(C.ev)
          /\ m_storage' = C.st
          /\ m_statistics' = C.sp
          /\ m_eviction_policy' = C.ev
          /\ m_access_policy' = C.ap
          /\ m_capacity_policy' = C.cp
          /\ Stored(k, k \in DOMAIN m_storage, Range(C.evicted))
    /\ UNCHANGED <<impl, algorithm, runs, legacyVars>>

Get(k) ==
    /\ impl = "policy"
    /\ CounterBelowBound(k)
    /\ LET C == cache_get(Facade, k)
       IN /\ m_storage' = C.st
          /\ m_statistics' = C.sp
          /\ m_eviction_policy' = C.ev
          /\ m_access_policy' = C.ap
          /\ m_capacity_policy' = C.cp
          /\ IF C.thrown THEN UNCHANGED <<touchOrder, insOrder, reachOrder>> ELSE Hit(k)
    /\ UNCHANGED <<impl, algorithm, runs, legacyVars>>

Erase(k) ==
    /\ impl = "policy"
    /\ LET C == cache_erase(Facade, k)
       IN /\ m_storage' = C.st
          /\ m_statistics' = C.sp
          /\ m_eviction_policy' = C.ev
          /\ m_access_policy' = C.ap
          /\ m_capacity_policy' = C.cp
          /\ Removed({k})
    /\ UNCHANGED <<impl, algorithm, runs, legacyVars>>

Clear ==
    /\ impl = "policy"
    /\ LET C == cache_clear(Facade)
       IN /\ m_storage' = C.st
          /\ m_statistics' = C.sp
          /\ m_eviction_policy' = C.ev
          /\ m_access_policy' = C.ap
          /\ m_capacity_policy' = C.cp
          /\ Removed(Keys)
    /\ UNCHANGED <<impl, algorithm, runs, legacyVars>>

SetCapacity(n) ==
    /\ impl = "policy"
    /\ \E C \in SetCapacityOutcomes(n) :
          /\ m_storage' = C.st
          /\ m_statistics' = C.sp
          /\ m_eviction_policy' = C.ev
          /\ m_access_policy' = C.ap
          /\ m_capacity_policy' = C.cp
          /\ Removed(Range(C.evicted))
    /\ UNCHANGED <<impl, algorithm, runs, legacyVars>>

Contains(k) ==
    /\ impl = "policy"
    /\ LET C == cache_contains(Facade, k)
       IN /\ m_storage' = C.st
          /\ m_statistics' = C.sp
          /\ m_eviction_policy' = C.ev
          /\ m_access_policy' = C.ap
          /\ m_capacity_policy' = C.cp
    /\ UNCHANGED <<impl, algorithm, runs, legacyVars, touchOrder, insOrder, reachOrder>>

\* ------------------------------------------------------------------------
\* Public operations of the legacy cache
\* ------------------------------------------------------------------------
LegacyPut(k, v) ==
    /\ impl = "legacy"
    /\ LET L == legacy_put(algorithm, Legacy, k, v)
       IN /\ m_list' = L.m_list
          /\ m_map' = L.m_map
          /\ m_capacity' = L.m_capacity
          /\ Stored(k, k \in DOMAIN m_map, Range(L.evicted))
    /\ UNCHANGED <<impl, algorithm, runs, policyVars>>

LegacyGet(k) ==
    /\ impl = "legacy"
    /\ LET L == legacy_get(Legacy, k)
       IN /\ m_list' = L.m_list
          /\ m_map' = L.m_map
          /\ m_capacity' = L.m_capacity
          /\ IF L.thrown THEN UNCHANGED <<touchOrder, insOrder, reachOrder>> ELSE Hit(k)
    /\ UNCHANGED <<impl, algorithm, runs, policyVars>>

LegacyClear ==
    /\ impl = "legacy"
    /\ LET L == legacy_clear(Legacy)
       IN /\ m_list' = L.m_list
          /\ m_map' = L.m_map
          /\ m_capacity' = L.m_capacity
          /\ Removed(Keys)
    /\ UNCHANGED <<impl, algorithm, runs, policyVars>>

Next ==
    \/ \E k \in Keys, v \in Values : Put(k, v)
    \/ \E k \in Keys : Get(k)
    \/ \E k \in Keys : Erase(k)
    \/ Clear
    \/ \E n \in Capacities : SetCapacity(n)
    \/ \E k \in Keys, v \in Values : LegacyPut(k, v)
    \/ \E k \in Keys : LegacyGet(k)
    \/ LegacyClear

Spec == Init /\ [][Next]_vars

\* a policy_based_cache constructed with one of the capacity policies cps
InitPolicy(cps) ==
    /\ impl = "policy"
    /\ algorithm \in Algorithms
    /\ m_storage = EmptyMap
    /\ m_statistics = hash_storage_new
    /\ m_eviction_policy = eviction_new(algorithm)
    /\ m_access_policy = access_new(algorithm)
    /\ m_capacity_policy \in cps
    /\ m_list = <<>>
    /\ m_map = EmptyMap
    /\ m_capacity = 0
    /\ touchOrder = <<>>
    /\ insOrder = <<>>
    /\ reachOrder = <<>>
    /\ runs = <<>>

\* the public operations of policy_based_cache
NextPolicy ==
    \/ \E k \in Keys, v \in Values : Put(k, v)
    \/ \E k \in Keys : Get(k)
    \/ \E k \in Keys : Erase(k)
    \/ Clear
    \/ \E n \in Capacities : SetCapacity(n)

\* a policy_based_cache constructed with fixed capacity 0
InitZero == InitPolicy({fixed_new(0)})

SpecZero == InitZero /\ [][NextPolicy]_vars

\* the eviction policy tracks exactly the stored keys
Consistent == TrackedKeys(m_eviction_policy) = DOMAIN m_storage

\* eviction_policy().on_insert(k) called from outside the cache for a key
\* the storage does not hold
ExtraKey(k) ==
    /\ impl = "policy"
    /\ Consistent
    /\ k \notin DOMAIN m_storage
    /\ QueueWithinBound(on_insert(m_eviction_policy, k))
    /\ m_eviction_policy' = on_insert(m_eviction_policy, k)
    /\ UNCHANGED <<impl, algorithm, runs, m_storage, m_statistics, m_access_policy,
                   m_capacity_policy, legacyVars,
                   touchOrder, insOrder, reachOrder>>

InitFixed == InitPolicy({fixed_new(n) : n \in Capacities})

\* the public operations of policy_based_cache, and one call through the
\* policy accessor, which the model follows no further
NextExtraKey ==
    \/ Consistent /\ \E k \in Keys, v \in Values : Put(k, v)
    \/ Consistent /\ \E k \in Keys : Get(k)
    \/ Consistent /\ \E k \in Keys : Erase(k)
    \/ Consistent /\ Clear
    \/ Consistent /\ \E n \in Capacities : SetCapacity(n)
    \/ \E k \in Keys : ExtraKey(k)

SpecExtraKey == InitFixed /\ [][NextExtraKey]_vars

\* a policy_based_cache on debug_storage_policy with fixed capacity
InitDebug ==
    /\ impl = "policy"
    /\ algorithm \in Algorithms
    /\ m_storage = EmptyMap
    /\ m_statistics = debug_storage_new
    /\ m_eviction_policy = eviction_new(algorithm)
    /\ m_access_policy = access_new(algorithm)
    /\ m_capacity_policy \in {fixed_new(n) : n \in Capacities}
    /\ m_list = <<>>
    /\ m_map = EmptyMap
    /\ m_capacity = 0
    /\ touchOrder = <<>>
    /\ insOrder = <<>>
    /\ reachOrder = <<>>
    /\ runs = <<>>

\* the model follows the counters of the debug storage up to MaxOperations
CountingBelowBound == m_statistics.m_operation_count < MaxOperations

NextDebug ==
    \/ CountingBelowBound /\ \E k \in Keys, v \in Values : Put(k, v)
    \/ CountingBelowBound /\ \E k \in Keys : Get(k)
    \/ CountingBelowBound /\ \E k \in Keys : Erase(k)
    \/ CountingBelowBound /\ Clear
    \/ CountingBelowBound /\ \E n \in Capacities : SetCapacity(n)
    \/ CountingBelowBound /\ \E k \in Keys : Contains(k)

SpecDebug == InitDebug /\ [][NextDebug]_vars

\* overage tolerances in percent: the default, and two set through
\* capacity_policy().set_overage_tolerance on the new cache
SoftTolerances == {default_overage_tolerance, 50, 100}

InitialSoftPolicies ==
    {soft_set_overage_tolerance(soft_new(n), p) : n \in Capacities, p \in SoftTolerances}

\* memory budgets with room for n items of the estimated size, and one byte
\* more
InitialMemoryPolicies ==
    {memory_new(n * MaxItemSize + r, MaxItemSize) : n \in Capacities, r \in {0, 1}}

InitSoft == InitPolicy(InitialSoftPolicies)

SpecSoft == InitSoft /\ [][NextPolicy]_vars

\* a policy_based_cache with any of the four capacity policies
InitCapacity ==
    InitPolicy({fixed_new(n) : n \in Capacities}
               \cup {dynamic_set_capacity_bounds(dynamic_new(n), 1, MaxCap) : n \in Capacities}
               \cup {soft_set_overage_tolerance(soft_new(n), 100) : n \in Capacities}
               \cup InitialMemoryPolicies)

SpecCapacity == InitCapacity /\ [][NextPolicy]_vars

\* ------------------------------------------------------------------------
\* Properties
\* ------------------------------------------------------------------------
Full == Size >= Capacity

AbsentKeys == Keys \ PresentKeys

\* what put(k, v) leaves behind in either cache: the keys, the evicted keys,
\* and what contains(k) and get(k) answer next
PutResults(k, v) ==
    IF impl = "policy"
    THEN {LET G == cache_get(C, k)
          IN [keys |-> DOMAIN C.st, evicted |-> C.evicted, contains |-> storage_contains(C.st, k),
              get_thrown |-> G.thrown, get_value |-> G.value] : C \in PutOutcomes(k, v)}
    ELSE {LET L == legacy_put(algorithm, Legacy, k, v)
              G == legacy_get(L, k)
          IN [keys |-> DOMAIN L.m_map, evicted |-> L.evicted, contains |-> k \in DOMAIN L.m_map,
              get_thrown |-> G.thrown, get_value |-> G.value]}

FixedCapacity == impl = "legacy" \/ m_capacity_policy.kind = "fixed"

\* C1: with fixed or dynamic capacity and any eviction policy, size() <=
\* capacity() after every put, get, erase, clear and set_capacity(m), m >= 1
C1_SizeWithinCapacity ==
    impl = "policy" => storage_size(m_storage) <= capacity(m_capacity_policy)

\* a full cache of dynamic capacity where a put of a new key evicts
C1_Witness ==
    /\ impl = "policy" /\ m_capacity_policy.kind = "dynamic"
    /\ storage_size(m_storage) = capacity(m_capacity_policy)
    /\ storage_size(m_storage) >= 2
    /\ \E k \in AbsentKeys : \E C \in PutOutcomes(k, "a") :
          C.evicted # <<>> /\ storage_size(C.st) = capacity(C.cp)

\* C2: after every public operation the keys held by storage are the keys
\* tracked by the eviction policy, and both report the same size
C2_KeyAgreement ==
    impl = "policy" =>
        /\ DOMAIN m_storage = TrackedKeys(m_eviction_policy)
        /\ storage_size(m_storage) = eviction_size(m_eviction_policy)

\* a FIFO cache that has lost a key to erase or eviction and holds others
C2_Witness ==
    /\ impl = "policy" /\ algorithm = "fifo"
    /\ storage_size(m_storage) >= 1
    /\ \E k \in DOMAIN m_eviction_policy.m_key_exists : ~m_eviction_policy.m_key_exists[k]
    /\ eviction_size(m_eviction_policy) = storage_size(m_storage)

\* C3: with fixed capacity, right after put(k, v) the key k is contained
\* and a get(k) returns v
C3_PutThenContainsAndGet ==
    FixedCapacity =>
        \A k \in Keys, v \in Values : \A R \in PutResults(k, v) :
            R.contains /\ ~R.get_thrown /\ R.get_value = v

\* a full cache where a put of a new key evicts and the key is then served
C3_Witness ==
    /\ FixedCapacity /\ Full /\ Size >= 2
    /\ \E k \in AbsentKeys : \E R \in PutResults(k, "b") :
          R.evicted # <<>> /\ R.contains /\ R.get_value = "b"

\* C4: put(k, v2) of a present key replaces the value, keeps size() and the
\* set of present keys and evicts nothing, also when the cache is full
C4_OverwriteKeepsKeys ==
    \A k \in PresentKeys, v \in Values : \A R \in PutResults(k, v) :
        /\ ~R.get_thrown /\ R.get_value = v
        /\ R.keys = PresentKeys
        /\ Cardinality(R.keys) = Size
        /\ R.evicted = <<>>

\* a full cache where a present key gets another value
C4_Witness ==
    /\ Full /\ Size >= 2
    /\ \E k \in PresentKeys : \E v \in Values \ {ValueOf(k)} : \E R \in PutResults(k, v) :
          R.get_value = v /\ R.keys = PresentKeys

\* the present key whose most recent touch is the oldest
LeastRecentlyTouched == touchOrder[Len(touchOrder)]

\* the present key whose most recent touch is the newest
MostRecentlyTouched == touchOrder[1]

\* C5: an LRU cache (policy-based and legacy) that is full evicts, on a put of
\* a new key, exactly the present key whose most recent touch is the oldest,
\* and all other present keys stay
C5_LruEvictsLeastRecentlyTouched ==
    (algorithm = "lru" /\ Full) =>
        \A k \in AbsentKeys, v \in Values : \A R \in PutResults(k, v) :
            /\ R.evicted = <<LeastRecentlyTouched>>
            /\ R.keys = (PresentKeys \ {LeastRecentlyTouched}) \cup {k}

\* a full legacy LRU cache of two keys where a put of a third evicts one
C5_Witness ==
    /\ impl = "legacy" /\ algorithm = "lru" /\ Full /\ Size >= 2
    /\ \E k \in AbsentKeys : \E R \in PutResults(k, "a") :
          /\ R.evicted = <<LeastRecentlyTouched>>
          /\ LeastRecentlyTouched \notin R.keys
          /\ MostRecentlyTouched \in R.keys

\* C6: a FIFO cache that is full evicts, on a put of a new key, the present
\* key whose current entry was inserted earliest; successful gets and
\* overwriting puts do not change which key that is
C6_FifoEvictsEarliestInserted ==
    (impl = "policy" /\ algorithm = "fifo") =>
        /\ Full => \A k \in AbsentKeys, v \in Values : \A R \in PutResults(k, v) :
                       R.evicted = <<Head(insOrder)>>
        /\ \A k \in PresentKeys :
              /\ DrainOrder(cache_get(Facade, k).ev) = DrainOrder(m_eviction_policy)
              /\ \A v \in Values : \A C \in PutOutcomes(k, v) :
                    DrainOrder(C.ev) = DrainOrder(m_eviction_policy)

\* the victim C7 describes: a present key of least (LFU) or greatest (MFU)
\* counter, the one that reached this counter longest ago
ExpectedFrequencyVictim ==
    LET f == m_eviction_policy.m_key_frequency
        counters == {f[x] : x \in DOMAIN m_storage}
        best == IF algorithm = "lfu" THEN Min(counters) ELSE Max(counters)
    IN Head(SelectSeq(reachOrder, LAMBDA x : f[x] = best))

\* C7: a full LFU cache evicts a present key of minimal counter, a full MFU
\* cache one of maximal counter, and among those the key that reached the
\* counter longest ago
C7_FrequencyVictim ==
    (impl = "policy" /\ algorithm \in {"lfu", "mfu"} /\ Full) =>
        \A k \in AbsentKeys, v \in Values : \A R \in PutResults(k, v) :
            R.evicted = <<ExpectedFrequencyVictim>>

\* a full cache whose victim shares its counter with a key that reached it later
C7_Witness ==
    /\ impl = "policy" /\ algorithm \in {"lfu", "mfu"} /\ Full /\ Size >= 2
    /\ \E x, y \in DOMAIN m_storage :
          /\ x # y /\ x = ExpectedFrequencyVictim /\ x > y
          /\ m_eviction_policy.m_key_frequency[x] = m_eviction_policy.m_key_frequency[y]
          /\ m_eviction_policy.m_key_frequency[x] >= 2
          /\ \E k \in AbsentKeys : \E R \in PutResults(k, "a") : R.evicted = <<x>>

\* C8: an MRU cache (policy-based and legacy) that is full evicts, on a put
\* of a new key, the present key whose most recent touch is the newest
C8_MruEvictsMostRecentlyTouched ==
    (algorithm = "mru" /\ Full) =>
        \A k \in AbsentKeys, v \in Values : \A R \in PutResults(k, v) :
            /\ R.evicted = <<MostRecentlyTouched>>
            /\ R.keys = (PresentKeys \ {MostRecentlyTouched}) \cup {k}

\* a full policy-based MRU cache of two keys where a put of a third evicts one
C8_Witness ==
    /\ impl = "policy" /\ algorithm = "mru" /\ Full /\ Size >= 2
    /\ \E k \in AbsentKeys : \E R \in PutResults(k, "a") :
          /\ R.evicted = <<MostRecentlyTouched>>
          /\ MostRecentlyTouched \notin R.keys
          /\ LeastRecentlyTouched \in R.keys

\* C9: erase(k) returns true exactly when k was present; afterwards k is
\* neither contained nor tracked, every other key keeps its presence, its
\* value and its place in the eviction order; erasing an absent key returns
\* false and changes nothing
C9_Erase ==
    impl = "policy" =>
        \A k \in Keys :
            LET C == cache_erase(Facade, k)
            IN /\ C.was_erased = storage_contains(m_storage, k)
               /\ ~storage_contains(C.st, k)
               /\ k \notin TrackedKeys(C.ev)
               /\ \A j \in Keys \ {k} :
                     /\ storage_contains(C.st, j) = storage_contains(m_storage, j)
                     /\ storage_contains(m_storage, j) => C.st[j] = m_storage[j]
               /\ IF algorithm = "random"
                  THEN TrackedKeys(C.ev) = TrackedKeys(m_eviction_policy) \ {k}
                  ELSE DrainOrder(C.ev) = SeqWithout(DrainOrder(m_eviction_policy), {k})
               /\ ~storage_contains(m_storage, k) =>
                     /\ C.st = m_storage /\ C.ev = m_eviction_policy
                     /\ C.ap = m_access_policy /\ C.cp = m_capacity_policy

\* a cache of three keys where erase removes the one that is neither the
\* first nor the last to be evicted
C9_Witness ==
    /\ impl = "policy" /\ algorithm # "random" /\ Size >= 3
    /\ \E k \in PresentKeys :
          LET C == cache_erase(Facade, k)
              order == DrainOrder(m_eviction_policy)
          IN /\ C.was_erased /\ ~storage_contains(C.st, k)
             /\ order[2] = k
             /\ DrainOrder(C.ev) = <<order[1], order[3]>>

\* C10: get(k) of an absent key fails with std::out_of_range and leaves the
\* stored keys, their values, size() and the eviction metadata as they were
C10_GetAbsent ==
    \A k \in AbsentKeys :
        IF impl = "policy"
        THEN LET C == cache_get(Facade, k)
             IN /\ C.thrown
                /\ C.st = m_storage
                /\ storage_size(C.st) = storage_size(m_storage)
                /\ C.ev = m_eviction_policy
        ELSE LET L == legacy_get(Legacy, k)
             IN /\ L.thrown
                /\ L.m_map = m_map
                /\ L.m_list = m_list

\* a cache that holds keys and fails a get of another one
C10_Witness ==
    /\ Size >= 2
    /\ \E k \in AbsentKeys :
          IF impl = "policy" THEN cache_get(Facade, k).thrown ELSE legacy_get(Legacy, k).thrown

\* the entries (key to value) and the evicted keys that put(k, v) leaves
\* behind in either cache
PutStores(k, v) ==
    IF impl = "policy"
    THEN {[stored |-> C.st, evicted |-> C.evicted] : C \in PutOutcomes(k, v)}
    ELSE {LET L == legacy_put(algorithm, Legacy, k, v)
          IN [stored |-> [x \in DOMAIN L.m_map |-> L.m_map[x].first], evicted |-> L.evicted]}

\* C11: with fixed capacity n >= 1, a put of a new key removes exactly
\* max(0, size() - n + 1) entries, none while size() < n and one when
\* size() = n, and every other entry stays with its value, so that n distinct
\* keys put into an empty cache are all retrievable
C11_PutEvictsExactly ==
    FixedCapacity =>
        \A k \in AbsentKeys, v \in Values : \A R \in PutStores(k, v) :
            /\ Len(R.evicted) = Max({0, (Size - Capacity) + 1})
            /\ Size < Capacity => R.evicted = <<>>
            /\ Size = Capacity => Len(R.evicted) = 1
            /\ Cardinality(Range(R.evicted)) = Len(R.evicted)
            /\ DOMAIN R.stored = (PresentKeys \ Range(R.evicted)) \cup {k}
            /\ R.stored[k] = v
            /\ \A x \in DOMAIN R.stored \ {k} : R.stored[x] = ValueOf(x)

\* a full fixed-capacity cache of two entries where the put of a third key
\* removes one entry, and a cache one below capacity where it removes none
C11_Witness ==
    /\ impl = "policy" /\ m_capacity_policy.kind = "fixed"
    /\ Capacity = MaxCap /\ Size = Capacity
    /\ \E k \in AbsentKeys : \E R \in PutStores(k, "a") :
            /\ Len(R.evicted) = 1
            /\ Cardinality(DOMAIN R.stored) = MaxCap
            /\ k \in DOMAIN R.stored

\* C12: in a cache constructed with capacity 0, put(k, v) succeeds and leaves
\* the cache empty: size() = 0 and contains(k) is false
C12_ZeroCapacityStaysEmpty ==
    (m_capacity_policy.kind = "fixed" /\ capacity(m_capacity_policy) = 0) =>
        \A k \in Keys, v \in Values : \A C \in PutOutcomes(k, v) :
            /\ ~C.thrown
            /\ storage_size(C.st) = 0
            /\ ~storage_contains(C.st, k)

\* the first victim that a put of a new key would select, drawing r from
\* std::rand(), is a key the storage does not hold
VictimNotStored(r) ==
    /\ needs_eviction(m_capacity_policy, storage_size(m_storage))
    /\ eviction_count(m_capacity_policy, storage_size(m_storage)) > 0
    /\ ~storage_empty(m_storage)
    /\ LET sv == select_victim(m_eviction_policy, r)
       IN ~sv.thrown /\ ~storage_contains(m_storage, sv.key)

\* C13: if during the put of a new key the eviction policy selects a victim
\* that the storage does not hold, put fails with an error visible to the
\* caller and the new entry is not inserted
C13_InconsistentVictimFailsPut ==
    \A k \in Keys \ DOMAIN m_storage, v \in Values :
        \A rs \in RandSeqs(m_capacity_policy, storage_size(m_storage)) :
            (Len(rs) >= 1 /\ VictimNotStored(rs[1])) =>
                LET C == cache_put(Facade, k, v, rs)
                IN C.thrown /\ ~storage_contains(C.st, k)

C15_SetCapacityKeepsEntries ==
    (impl = "policy" /\ m_capacity_policy.kind = "fixed") =>
        \A n \in 0..MaxCap : n >= storage_size(m_storage) =>
            \A C \in SetCapacityOutcomes(n) :
                /\ C.evicted = <<>>
                /\ \A k \in DOMAIN m_storage : storage_contains(C.st, k) /\ C.st[k] = m_storage[k]

\* C16: clear() leaves the cache with size() = 0 and empty() true, and leaves
\* the eviction policy with size() = 0 and empty() true, whatever the policy
\* and the state before
C16_ClearEmptiesCacheAndPolicy ==
    impl = "policy" =>
        LET C == cache_clear(Facade)
        IN /\ storage_size(C.st) = 0
           /\ storage_empty(C.st)
           /\ eviction_size(C.ev) = 0
           /\ eviction_empty(C.ev)
           /\ TrackedKeys(C.ev) = {}

\* a full cache whose eviction policy tracks its keys, emptied by clear()
C16_Witness ==
    /\ impl = "policy"
    /\ storage_size(m_storage) = MaxCap
    /\ eviction_size(m_eviction_policy) = MaxCap
    /\ ~eviction_empty(m_eviction_policy)
    /\ storage_empty(cache_clear(Facade).st)
    /\ eviction_empty(cache_clear(Facade).ev)

\* C17: under the memory capacity policy with budget B and item size
\* estimate e, 1 <= e <= B, size() * e <= B after every put, get, erase and
\* clear, also when B is not a multiple of e
C17_MemoryWithinBudget ==
    (/\ m_capacity_policy.kind = "memory"
     /\ m_capacity_policy.m_item_size_estimate >= 1
     /\ m_capacity_policy.m_memory_limit >= m_capacity_policy.m_item_size_estimate) =>
        storage_size(m_storage) * m_capacity_policy.m_item_size_estimate
            <= m_capacity_policy.m_memory_limit

\* C18: under the soft capacity policy with target t >= 1 and hard maximum
\* m = floor(t * (1 + tolerance)), size() <= m after every put, get, erase,
\* clear and set_capacity
C18_SoftWithinMaximum ==
    (m_capacity_policy.kind = "soft" /\ m_capacity_policy.m_target_capacity >= 1) =>
        /\ m_capacity_policy.m_max_capacity =
               (m_capacity_policy.m_target_capacity * (100 + m_capacity_policy.m_overage_tolerance))
                   \div 100
        /\ storage_size(m_storage) <= m_capacity_policy.m_max_capacity
        /\ \A k \in Keys, v \in Values : \A C \in PutOutcomes(k, v) :
               storage_size(C.st) <= C.cp.m_max_capacity
        /\ \A n \in Capacities : \A C \in SetCapacityOutcomes(n) :
               storage_size(C.st) <= C.cp.m_max_capacity

\* a soft-capacity cache filled above its target up to the hard maximum,
\* where the put of a further key evicts back below the target
C18_Witness ==
    /\ m_capacity_policy.kind = "soft"
    /\ m_capacity_policy.m_target_capacity < m_capacity_policy.m_max_capacity
    /\ storage_size(m_storage) = m_capacity_policy.m_max_capacity
    /\ \E k \in AbsentKeys : \E C \in PutOutcomes(k, "a") :
            /\ Len(C.evicted) >= 1
            /\ storage_size(C.st) = m_capacity_policy.m_target_capacity

\* the size invariant of a capacity policy: size <= n for fixed and dynamic
\* capacity n, size <= m for the soft hard maximum m, size * e <= B for the
\* memory budget B and item size estimate e
WithinLimit(cp, size) ==
    CASE cp.kind = "fixed" -> size <= cp.m_capacity
      [] cp.kind = "dynamic" -> size <= cp.m_current_capacity
      [] cp.kind = "soft" -> size <= cp.m_max_capacity
      [] cp.kind = "memory" -> size * cp.m_item_size_estimate <= cp.m_memory_limit

\* the sizes a cache over Keys can have
Sizes == 0..MaxKey

\* C19: for each capacity policy and every size s, needs_eviction(s) is true
\* exactly when s + 1 entries exceed the limit: s + 1 > n for fixed and
\* dynamic, s + 1 > m for soft, (s + 1) * e > B for memory
C19_NeedsEvictionExact ==
    impl = "policy" =>
        \A s \in Sizes :
            needs_eviction(m_capacity_policy, s) <=> ~WithinLimit(m_capacity_policy, s + 1)

\* C20: for each capacity policy and every size s, eviction_count(s) is the
\* smallest k >= 0 such that a cache of s - k + 1 entries satisfies the size
\* invariant of the policy
C20_EvictionCountSmallest ==
    impl = "policy" =>
        \A s \in Sizes :
            LET k == eviction_count(m_capacity_policy, s)
            IN /\ k >= 0
               /\ WithinLimit(m_capacity_policy, (s - k) + 1)
               /\ \A j \in 0..(k - 1) : ~WithinLimit(m_capacity_policy, (s - j) + 1)

\* the frequency counters of the keys that ev tracks
Counters(ev) == ev.m_key_frequency

\* C21: in an LFU or MFU cache the counter of a present key is 1 right after
\* its insertion, grows by exactly 1 on every successful get of it and every
\* overwriting put of it, and never decreases while the key stays present
C21_CounterSteps ==
    (impl = "policy" /\ algorithm \in {"lfu", "mfu"}) =>
        LET f == Counters(m_eviction_policy)
        IN /\ \A k \in DOMAIN m_storage : f[k] >= 1
           /\ \A k \in Keys, v \in Values : \A C \in PutOutcomes(k, v) :
                 /\ Counters(C.ev)[k] = IF k \in DOMAIN m_storage THEN f[k] + 1 ELSE 1
                 /\ \A x \in (DOMAIN C.st \cap DOMAIN m_storage) \ {k} : Counters(C.ev)[x] = f[x]
           /\ \A k \in Keys :
                 LET G == cache_get(Facade, k)
                 IN /\ ~G.thrown => Counters(G.ev)[k] = f[k] + 1
                    /\ \A x \in DOMAIN G.st \ {k} : Counters(G.ev)[x] = f[x]
           /\ \A k \in Keys :
                 LET E == cache_erase(Facade, k)
                 IN \A x \in DOMAIN E.st : Counters(E.ev)[x] = f[x]
           /\ \A n \in Capacities : \A C \in SetCapacityOutcomes(n) :
                 \A x \in DOMAIN C.st : Counters(C.ev)[x] = f[x]

\* an LFU cache holding a key whose counter has grown next to a key that was
\* only inserted, where a get and an overwriting put each add one
C21_Witness ==
    /\ impl = "policy" /\ algorithm = "lfu"
    /\ \E x, y \in DOMAIN m_storage :
          /\ Counters(m_eviction_policy)[x] = 2
          /\ Counters(m_eviction_policy)[y] = 1
          /\ Counters(cache_get(Facade, y).ev)[y] = 2
          /\ \E C \in PutOutcomes(x, "b") : Counters(C.ev)[x] = 3

\* C22 as stated: contains(k) changes no state of the cache, the counters of
\* a debug storage included, whether k is present or not
C22_ContainsChangesNothing ==
    impl = "policy" =>
        \A k \in Keys :
            LET C == cache_contains(Facade, k)
            IN /\ C.st = m_storage
               /\ C.ev = m_eviction_policy
               /\ C.ap = m_access_policy
               /\ C.cp = m_capacity_policy
               /\ C.sp = m_statistics

\* C22: contains(k) answers whether k is stored and changes neither the
\* stored entries nor the eviction metadata, the access-policy state or the
\* capacity state, whether k is present or not; of the storage policy's own
\* state a debug storage adds one to its operation count and one to its hit
\* count (k present) or its miss count (k absent)
C22_ContainsCountsOnly ==
    impl = "policy" =>
        \A k \in Keys :
            LET C == cache_contains(Facade, k)
                present == k \in DOMAIN m_storage
            IN /\ C.found = present
               /\ C.st = m_storage
               /\ C.ev = m_eviction_policy
               /\ C.ap = m_access_policy
               /\ C.cp = m_capacity_policy
               /\ m_statistics.kind = "hash" => C.sp = m_statistics
               /\ m_statistics.kind = "debug" =>
                     /\ C.sp.m_operation_count = m_statistics.m_operation_count + 1
                     /\ C.sp.m_hit_count = m_statistics.m_hit_count + (IF present THEN 1 ELSE 0)
                     /\ C.sp.m_miss_count = m_statistics.m_miss_count + (IF present THEN 0 ELSE 1)

\* a debug-storage LRU cache with a present and an absent key after earlier
\* lookups, where contains of each leaves the recency order as it is
C22_Witness ==
    /\ m_statistics.kind = "debug" /\ algorithm = "lru"
    /\ m_statistics.m_hit_count >= 1 /\ m_statistics.m_miss_count >= 1
    /\ storage_size(m_storage) = MaxCap
    /\ \E k \in DOMAIN m_storage, a \in AbsentKeys :
          /\ lru_select_victim(m_eviction_policy).key = k
          /\ cache_contains(Facade, k).found
          /\ cache_contains(Facade, k).ev = m_eviction_policy
          /\ ~cache_contains(Facade, a).found
          /\ cache_contains(Facade, a).sp.m_miss_count = m_statistics.m_miss_count + 1

\* ------------------------------------------------------------------------
\* Two runs of one program side by side.  A run is the state of the process's
\* std::rand() generator, g, the RANDOM cache under observation, Y, and at
\* most one further RANDOM cache of the same process, X.
Seeds == RandValues

\* the values std::time(nullptr) takes, as far as they matter to std::srand
Times == RandValues

random_cache(n) ==
    [st |-> EmptyMap, sp |-> hash_storage_new, ev |-> random_new,
     ap |-> access_new("random"), cp |-> fixed_new(n), evicted |-> <<>>, thrown |-> FALSE,
     value |-> NoValue, was_erased |-> FALSE, found |-> FALSE]

\* the program seeds the generator itself: std::srand(s)
program_seeded(s) == [seed |-> s, g |-> rand_seeded(s), time |-> 0, Y |-> <<>>, X |-> <<>>]

\* random_eviction_policy(): initialize_random() calls std::srand(std::time(nullptr))
initialize_random(R, t) == [R EXCEPT !.g = rand_seeded(t)]

observed_constructed(R, n, t) ==
    [initialize_random(R, t) EXCEPT !.time = t, !.Y = <<random_cache(n)>>]

other_constructed(R, n, t) == [initialize_random(R, t) EXCEPT !.X = <<random_cache(n)>>]

before_operation(C) ==
    [C EXCEPT !.evicted = <<>>, !.thrown = FALSE, !.value = NoValue,
              !.was_erased = FALSE, !.found = FALSE]

\* the number of std::rand() calls put(k, _) makes on cache C
rand_calls(C, k) ==
    IF ~storage_contains(C.st, k) /\ needs_eviction(C.cp, storage_size(C.st))
    THEN Min({eviction_count(C.cp, storage_size(C.st)), storage_size(C.st)})
    ELSE 0

put_drawing(g, C, k, v) ==
    [g |-> rand_after(g, rand_calls(C, k)),
     C |-> cache_put(before_operation(C), k, v, rand_values(g, rand_calls(C, k)))]

observed_put(R, k, v) ==
    LET o == put_drawing(R.g, R.Y[1], k, v) IN [R EXCEPT !.g = o.g, !.Y = <<o.C>>]

other_put(R, k, v) ==
    LET o == put_drawing(R.g, R.X[1], k, v) IN [R EXCEPT !.g = o.g, !.X = <<o.C>>]

observed_erase(R, k) == [R EXCEPT !.Y = <<cache_erase(before_operation(R.Y[1]), k)>>]

InitRuns ==
    /\ impl = "runs"
    /\ algorithm = "random"
    /\ m_storage = EmptyMap
    /\ m_statistics = hash_storage_new
    /\ m_eviction_policy = random_new
    /\ m_access_policy = access_new("random")
    /\ m_capacity_policy = fixed_new(1)
    /\ m_list = <<>>
    /\ m_map = EmptyMap
    /\ m_capacity = 0
    /\ touchOrder = <<>>
    /\ insOrder = <<>>
    /\ reachOrder = <<>>
    /\ \E s \in Seeds, n \in Capacities, t1 \in Times, t2 \in Times :
          runs = <<observed_constructed(program_seeded(s), n, t1),
                   observed_constructed(program_seeded(s), n, t2)>>

\* the same operation on the observed cache of both runs
TwinPut(k, v) ==
    /\ runs' = [r \in 1..2 |-> observed_put(runs[r], k, v)]
    /\ UNCHANGED <<impl, algorithm, policyVars, legacyVars, touchOrder, insOrder, reachOrder>>

TwinErase(k) ==
    /\ storage_contains(runs[1].Y[1].st, k) \/ storage_contains(runs[2].Y[1].st, k)
    /\ runs' = [r \in 1..2 |-> observed_erase(runs[r], k)]
    /\ UNCHANGED <<impl, algorithm, policyVars, legacyVars, touchOrder, insOrder, reachOrder>>

\* the second run alone constructs a further cache
OtherConstruct(n, t) ==
    /\ runs[2].X = <<>>
    /\ runs' = [runs EXCEPT ![2] = other_constructed(@, n, t)]
    /\ UNCHANGED <<impl, algorithm, policyVars, legacyVars, touchOrder, insOrder, reachOrder>>

\* ... and puts into it
OtherPut(k, v) ==
    /\ runs[2].X # <<>>
    /\ runs' = [runs EXCEPT ![2] = other_put(@, k, v)]
    /\ UNCHANGED <<impl, algorithm, policyVars, legacyVars, touchOrder, insOrder, reachOrder>>

\* the runs are compared up to the first operation that tells them apart
Alike == runs[1].Y = runs[2].Y

NextRuns ==
    \/ Alike /\ \E k \in Keys : TwinPut(k, "a")
    \/ Alike /\ \E k \in Keys : TwinErase(k)
    \/ Alike /\ \E n \in Capacities, t \in Times : OtherConstruct(n, t)
    \/ Alike /\ \E k \in Keys : OtherPut(k, "a")

SpecRuns == InitRuns /\ [][NextRuns]_vars

\* C23: two runs of a RANDOM cache that were seeded with the same value and
\* received the same operations evict the same keys in the same order: the
\* latest operation evicted the same keys in both runs, and both hold the same keys.
C23_SameSeedSameVictims ==
    (runs # <<>> /\ runs[1].seed = runs[2].seed /\ runs[1].X = <<>> /\ runs[2].X = <<>>)
        => /\ runs[1].Y[1].evicted = runs[2].Y[1].evicted
           /\ DOMAIN runs[1].Y[1].st = DOMAIN runs[2].Y[1].st

\* C24: constructing or operating on another RANDOM cache never changes the
\* victims a RANDOM cache selects: two runs that start alike and treat the
\* observed cache alike evict the same keys from it, whatever the second run
\* does with a further cache.
C24_OtherCacheWithoutInfluence ==
    (runs # <<>> /\ runs[1].time = runs[2].time)
        => /\ runs[1].Y[1].evicted = runs[2].Y[1].evicted
           /\ DOMAIN runs[1].Y[1].st = DOMAIN runs[2].Y[1].st

\* ------------------------------------------------------------------------
\* Configuring a dynamic capacity policy: the constructor and, through
\* capacity_policy(), set_capacity_bounds and set_growth_parameters
BoundArguments == 0..(MaxCap + 1)

GrowthArguments == {FactorUnit \div 2, FactorUnit, default_growth_factor}

ShrinkArguments == {0, default_shrink_factor, FactorUnit, default_growth_factor}

\* what a configuring call hands back: none of the three has a throw statement
configured(cp) == [cp |-> cp, thrown |-> FALSE]

InitDynamic ==
    /\ impl = "policy"
    /\ algorithm = "lru"
    /\ m_storage = EmptyMap
    /\ m_statistics = hash_storage_new
    /\ m_eviction_policy = eviction_new(algorithm)
    /\ m_access_policy = access_new(algorithm)
    /\ \E b \in Capacities, mn \in BoundArguments, mx \in BoundArguments :
          m_capacity_policy = dynamic_constructed(b, mn, mx, default_growth_factor, default_shrink_factor)
    /\ m_list = <<>>
    /\ m_map = EmptyMap
    /\ m_capacity = 0
    /\ touchOrder = <<>>
    /\ insOrder = <<>>
    /\ reachOrder = <<>>
    /\ runs = <<>>

SetCapacityBounds(p_min_capacity, p_max_capacity) ==
    /\ impl = "policy"
    /\ m_capacity_policy' =
          configured(dynamic_set_capacity_bounds(m_capacity_policy, p_min_capacity, p_max_capacity)).cp
    /\ UNCHANGED <<impl, algorithm, runs, m_storage, m_statistics, m_eviction_policy, m_access_policy,
                   legacyVars, touchOrder, insOrder, reachOrder>>

SetGrowthParameters(p_growth_factor, p_shrink_factor) ==
    /\ impl = "policy"
    /\ m_capacity_policy' =
          configured(dynamic_set_growth_parameters(m_capacity_policy, p_growth_factor, p_shrink_factor)).cp
    /\ UNCHANGED <<impl, algorithm, runs, m_storage, m_statistics, m_eviction_policy, m_access_policy,
                   legacyVars, touchOrder, insOrder, reachOrder>>

NextDynamic ==
    \/ \E k \in Keys : Put(k, "a")
    \/ \E k \in Keys : Get(k)
    \/ \E k \in Keys : Erase(k)
    \/ Clear
    \/ \E n \in Capacities : SetCapacity(n)
    \/ \E mn \in BoundArguments, mx \in BoundArguments : SetCapacityBounds(mn, mx)
    \/ \E g \in GrowthArguments, h \in ShrinkArguments : SetGrowthParameters(g, h)

SpecDynamic == InitDynamic /\ [][NextDynamic]_vars

\* a configuration the specification admits: min <= base <= max, growth
\* factor >= 1, shrink factor in (0, 1]
GoodBounds(base, mn, mx) == mn <= base /\ base <= mx

GoodFactors(g, h) == g >= FactorUnit /\ 0 < h /\ h <= FactorUnit

Rejected(outcome, cp) == outcome.thrown /\ outcome.cp = cp

\* C25: a bad configuration of the dynamic capacity policy (min > max, base
\* outside [min, max], growth factor < 1, shrink factor outside (0, 1]) is
\* reported as an error by the configuring call, which leaves the
\* configuration as it was: no policy is constructed from bad arguments, and
\* set_capacity_bounds and set_growth_parameters reject bad arguments.
C25_BadConfigurationRejected ==
    (impl = "policy" /\ m_capacity_policy.kind = "dynamic") =>
        /\ GoodBounds(m_capacity_policy.m_base_capacity, m_capacity_policy.m_min_capacity,
                      m_capacity_policy.m_max_capacity)
        /\ GoodFactors(m_capacity_policy.m_growth_factor, m_capacity_policy.m_shrink_factor)
        /\ \A mn \in BoundArguments, mx \in BoundArguments :
              ~GoodBounds(m_capacity_policy.m_base_capacity, mn, mx) =>
                  Rejected(configured(dynamic_set_capacity_bounds(m_capacity_policy, mn, mx)),
                           m_capacity_policy)
        /\ \A g \in GrowthArguments, h \in ShrinkArguments :
              ~GoodFactors(g, h) =>
                  Rejected(configured(dynamic_set_growth_parameters(m_capacity_policy, g, h)),
                           m_capacity_policy)

\* ------------------------------------------------------------------------
\* The factory functions.  A policy set names an eviction policy, a storage
\* policy, an access policy and a capacity policy (all_policies.hpp).
PolicySets == {"lru", "fifo", "lfu"}

policy_set(name) ==
    CASE name = "lru" -> [eviction |-> "lru", access |-> "update_on_access"]
      [] name = "fifo" -> [eviction |-> "fifo", access |-> "no_update_on_access"]
      [] name = "lfu" -> [eviction |-> "lfu", access |-> "update_on_access"]

\* policy_based_cache<eviction, hash_storage, access, fixed_capacity>(p_capacity)
policy_based_cache(eviction, access, p_capacity) ==
    [st |-> EmptyMap, sp |-> hash_storage_new, ev |-> eviction_new(eviction),
     ap |-> [kind |-> access], cp |-> fixed_new(p_capacity), evicted |-> <<>>, thrown |-> FALSE,
     value |-> NoValue, was_erased |-> FALSE, found |-> FALSE]

make_lru_cache(p_capacity) == policy_based_cache("lru", "update_on_access", p_capacity)

make_fifo_cache(p_capacity) == policy_based_cache("fifo", "no_update_on_access", p_capacity)

make_lfu_cache(p_capacity) == policy_based_cache("lfu", "update_on_access", p_capacity)

\* the convenience factory of a policy set
make_named_cache(name, p_capacity) ==
    CASE name = "lru" -> make_lru_cache(p_capacity)
      [] name = "fifo" -> make_fifo_cache(p_capacity)
      [] name = "lfu" -> make_lfu_cache(p_capacity)

\* make_cache<policy_set_t>: the template argument does not occur in the
\* return type or in the body
make_cache(set, p_capacity) == policy_based_cache("lru", "update_on_access", p_capacity)

observed_get(R, k) == [R EXCEPT !.Y = <<cache_get(before_operation(R.Y[1]), k)>>]

\* the first run uses make_cache<policy_set>, the second the convenience factory
InitFactory ==
    /\ impl = "factory"
    /\ algorithm \in PolicySets
    /\ m_storage = EmptyMap
    /\ m_statistics = hash_storage_new
    /\ m_eviction_policy = eviction_new(algorithm)
    /\ m_access_policy = access_new(algorithm)
    /\ m_capacity_policy = fixed_new(1)
    /\ m_list = <<>>
    /\ m_map = EmptyMap
    /\ m_capacity = 0
    /\ touchOrder = <<>>
    /\ insOrder = <<>>
    /\ reachOrder = <<>>
    /\ \E n \in Capacities :
          runs = <<[program_seeded(0) EXCEPT !.Y = <<make_cache(policy_set(algorithm), n)>>],
                   [program_seeded(0) EXCEPT !.Y = <<make_named_cache(algorithm, n)>>]>>

TwinGet(k) ==
    /\ runs' = [r \in 1..2 |-> observed_get(runs[r], k)]
    /\ UNCHANGED <<impl, algorithm, policyVars, legacyVars, touchOrder, insOrder, reachOrder>>

\* what a caller sees of the latest operation and of the contents
Results(C) == [evicted |-> C.evicted, thrown |-> C.thrown, value |-> C.value, stored |-> C.st]

SameResults == Results(runs[1].Y[1]) = Results(runs[2].Y[1])

TwinCounterBelowBound(k) ==
    \A r \in 1..2 :
        LET ev == runs[r].Y[1].ev
        IN (ev.alg \in {"lfu", "mfu"} /\ k \in DOMAIN ev.m_key_frequency)
               => ev.m_key_frequency[k] < MaxFreq

NextFactory ==
    \/ SameResults /\ \E k \in Keys, v \in Values : TwinCounterBelowBound(k) /\ TwinPut(k, v)
    \/ SameResults /\ \E k \in Keys : TwinCounterBelowBound(k) /\ TwinGet(k)

SpecFactory == InitFactory /\ [][NextFactory]_vars

\* C26: make_cache<policy_set>(n) behaves as the policy set does: for every
\* predefined set with a convenience factory (LRU, FIFO, LFU), the cache of
\* make_cache<set>(n) and the cache of that factory give the same results on
\* the same operations: same values, same failures, same evictions, same contents.
C26_MakeCacheFollowsPolicySet ==
    impl = "factory" => SameResults

\* ------------------------------------------------------------------------
\* An LRU cache with threshold access.  The policy's threshold is set through
\* access_policy(); runs[k] is a history: the number of on_access calls made
\* for k, which are the hits of get(k).  clear_access_counts(), the policy's
\* own reset, is no operation of the owning cache and is left out.
MaxCalls == 3

Thresholds == 1..MaxCalls

InitThreshold ==
    /\ impl = "policy"
    /\ algorithm = "lru"
    /\ m_storage = EmptyMap
    /\ m_statistics = hash_storage_new
    /\ m_eviction_policy = eviction_new(algorithm)
    /\ m_access_policy = threshold_new(default_threshold)
    /\ m_capacity_policy \in {fixed_new(n) : n \in Capacities}
    /\ m_list = <<>>
    /\ m_map = EmptyMap
    /\ m_capacity = 0
    /\ touchOrder = <<>>
    /\ insOrder = <<>>
    /\ reachOrder = <<>>
    /\ runs = [k \in Keys |-> 0]

GetCounted(k) ==
    /\ impl = "policy"
    /\ runs[k] < MaxCalls
    /\ LET C == cache_get(Facade, k)
       IN /\ m_storage' = C.st
          /\ m_statistics' = C.sp
          /\ m_eviction_policy' = C.ev
          /\ m_access_policy' = C.ap
          /\ m_capacity_policy' = C.cp
          /\ runs' = IF C.thrown THEN runs ELSE [runs EXCEPT ![k] = @ + 1]
          /\ IF C.thrown THEN UNCHANGED <<touchOrder, insOrder, reachOrder>> ELSE Hit(k)
    /\ UNCHANGED <<impl, algorithm, legacyVars>>

SetThreshold(p_threshold) ==
    /\ impl = "policy"
    /\ m_access_policy' = threshold_set_threshold(m_access_policy, p_threshold)
    /\ UNCHANGED <<impl, algorithm, runs, m_storage, m_statistics, m_eviction_policy,
                   m_capacity_policy, legacyVars, touchOrder, insOrder, reachOrder>>

NextThreshold ==
    \/ \E k \in Keys : Put(k, "a")
    \/ \E k \in Keys : GetCounted(k)
    \/ \E k \in Keys : Erase(k)
    \/ Clear
    \/ \E t \in Thresholds : SetThreshold(t)

SpecThreshold == InitThreshold /\ [][NextThreshold]_vars

MostRecent(ev) == ListKeys(ev.m_access_list)[1]

AllLegacyAlgorithms == {"lru", "mru", "fifo", "lfu", "mfu", "random"}

InitLegacy ==
    /\ impl = "legacy"
    /\ algorithm \in AllLegacyAlgorithms
    /\ m_storage = EmptyMap
    /\ m_statistics = hash_storage_new
    /\ m_eviction_policy = eviction_new(algorithm)
    /\ m_access_policy = access_new(algorithm)
    /\ m_capacity_policy = fixed_new(0)
    /\ m_list = <<>>
    /\ m_map = EmptyMap
    /\ m_capacity \in Capacities
    /\ touchOrder = <<>>
    /\ insOrder = <<>>
    /\ reachOrder = <<>>
    /\ runs = <<>>

\* the outcomes of put(k, v) on the legacy cache; RANDOM draws std::rand()
LegacyPutOutcomes(k, v) ==
    IF algorithm = "random"
    THEN {legacy_random_put(Legacy, k, v, r) : r \in RandValues}
    ELSE {legacy_put(algorithm, Legacy, k, v)}

LegacyCounterBelowBound(k) ==
    (algorithm \in {"lfu", "mfu"} /\ k \in DOMAIN m_map) => m_map[k].second < MaxFreq

\* runs is a history here: the key of the most recent put, and whether clear
\* was called since
LegacyPutTracked(k, v) ==
    /\ impl = "legacy"
    /\ LegacyCounterBelowBound(k)
    /\ \E L \in LegacyPutOutcomes(k, v) :
          /\ m_list' = L.m_list
          /\ m_map' = L.m_map
          /\ m_capacity' = L.m_capacity
    /\ runs' = <<[key |-> k, cleared |-> FALSE]>>
    /\ UNCHANGED <<impl, algorithm, policyVars, touchOrder, insOrder, reachOrder>>

LegacyGetTracked(k) ==
    /\ impl = "legacy"
    /\ LegacyCounterBelowBound(k)
    /\ LET L == legacy_get(Legacy, k)
       IN /\ m_list' = L.m_list
          /\ m_map' = L.m_map
          /\ m_capacity' = L.m_capacity
    /\ UNCHANGED <<impl, algorithm, runs, policyVars, touchOrder, insOrder, reachOrder>>

LegacyClearTracked ==
    /\ impl = "legacy"
    /\ LET L == legacy_clear(Legacy)
       IN /\ m_list' = L.m_list
          /\ m_map' = L.m_map
          /\ m_capacity' = L.m_capacity
    /\ runs' = [i \in DOMAIN runs |-> [runs[i] EXCEPT !.cleared = TRUE]]
    /\ UNCHANGED <<impl, algorithm, policyVars, touchOrder, insOrder, reachOrder>>

NextLegacy ==
    \/ \E k \in Keys, v \in Values : LegacyPutTracked(k, v)
    \/ \E k \in Keys : LegacyGetTracked(k)
    \/ LegacyClearTracked

SpecLegacy == InitLegacy /\ [][NextLegacy]_vars

Retrievable(L) == {k \in Keys : ~legacy_get(L, k).thrown}

WithinCapacity(L) ==
    /\ Cardinality(DOMAIN L.m_map) <= L.m_capacity
    /\ Cardinality(Retrievable(L)) <= L.m_capacity

\* C28 as stated: in each legacy specialization (LRU, MRU, FIFO, LFU, MFU,
\* RANDOM) of capacity n >= 1, after any sequence of put, get and clear,
\* size() <= n, at most n keys can be retrieved, and the key of the most
\* recent put can be retrieved.
C28_MostRecentPutRetrievable ==
    impl = "legacy" =>
        /\ WithinCapacity(Legacy)
        /\ \A i \in DOMAIN runs : runs[i].key \in Retrievable(Legacy)

\* C28: in each legacy specialization of capacity n >= 1, after any sequence
\* of put, get and clear, size() <= n, at most n keys can be retrieved, and
\* the key of the most recent put can be retrieved unless clear was called
\* after that put; a put leaves its key retrievable with the value put.
C28_LegacyWithinCapacity ==
    impl = "legacy" =>
        /\ WithinCapacity(Legacy)
        /\ \A i \in DOMAIN runs : ~runs[i].cleared => runs[i].key \in Retrievable(Legacy)
        /\ \A k \in Keys, v \in Values :
              \A L \in LegacyPutOutcomes(k, v) :
                  /\ WithinCapacity(L)
                  /\ k \in Retrievable(L)
                  /\ legacy_get(L, k).value = v

\* a full FIFO, LFU, MFU or RANDOM cache whose most recent put was followed
\* by no clear, and where a put of a new key evicts
C28_Witness ==
    /\ impl = "legacy" /\ algorithm \in {"fifo", "lfu", "mfu", "random"}
    /\ Cardinality(DOMAIN m_map) = m_capacity
    /\ runs # <<>> /\ ~runs[1].cleared
    /\ \E k \in Keys \ DOMAIN m_map :
          \A L \in LegacyPutOutcomes(k, "a") : L.evicted # <<>> /\ k \in Retrievable(L)

\* C29: select_victim only selects: a call that returns a key leaves the
\* eviction policy as it was, so for LRU, MRU, FIFO, LFU and MFU the next
\* select_victim returns the same key again.
C29_SelectVictimOnlySelects ==
    impl = "policy" =>
        \A r \in RandValues :
            (~eviction_empty(m_eviction_policy) /\ ~select_victim(m_eviction_policy, r).thrown) =>
                LET first == select_victim(m_eviction_policy, r)
                    second == select_victim(first.ev, r)
                IN /\ first.ev = m_eviction_policy
                   /\ algorithm # "random" => (~second.thrown /\ second.key = first.key)

\* C30: for every eviction policy, empty() is true exactly when no key is
\* tracked: empty() == (size() == 0), also for FIFO after keys were removed.
C30_EmptyMeansSizeZero ==
    impl = "policy" => (eviction_empty(m_eviction_policy) <=> eviction_size(m_eviction_policy) = 0)

\* ------------------------------------------------------------------------
\* optimized_random_storage (policies/storage/optimized_random_storage.hpp):
\* S = [m_map, m_keys, m_capacity, thrown], m_map[k] = (value, index in
\* m_keys).  The variables m_map, m_list and m_capacity hold m_map, m_keys
\* and m_capacity of the storage.
\* ------------------------------------------------------------------------
RandomStorage == [m_map |-> m_map, m_keys |-> m_list, m_capacity |-> m_capacity, thrown |-> FALSE]

SwapWithBack(keys, index) ==
    [keys EXCEPT ![index + 1] = keys[Len(keys)], ![Len(keys)] = keys[index + 1]]

\* m_map[key].second = index, where operator[] creates a missing entry
IndexPatched(map, key, index) ==
    MapPut(map, key, [first |-> IF key \in DOMAIN map THEN map[key].first ELSE NoValue,
                      second |-> index])

optimized_insert(S, k, v) ==
    IF k \in DOMAIN S.m_map
    THEN [S EXCEPT !.m_map = MapPut(@, k, [first |-> v, second |-> @[k].second])]
    ELSE IF Cardinality(DOMAIN S.m_map) >= S.m_capacity /\ S.m_capacity > 0
    THEN S
    ELSE [S EXCEPT !.m_keys = Append(@, k),
                   !.m_map = MapPut(@, k, [first |-> v, second |-> Len(S.m_keys)])]

\* erase(k) reads m_keys outside its bounds, or calls back() on an empty
\* vector, or keeps using its iterator after operator[] added an entry
optimized_erase_undefined(S, k) ==
    /\ k \in DOMAIN S.m_map
    /\ S.m_map[k].second # Len(S.m_keys) - 1
    /\ \/ S.m_map[k].second >= Len(S.m_keys)
       \/ S.m_keys[S.m_map[k].second + 1] \notin DOMAIN S.m_map

\* last_key is a reference to m_keys.back(): after std::swap it names the
\* key that was moved to the back
optimized_erase(S, k) ==
    IF k \in DOMAIN S.m_map
    THEN LET remove_index == S.m_map[k].second
             swapped == IF remove_index # Len(S.m_keys) - 1
                        THEN LET keys == SwapWithBack(S.m_keys, remove_index)
                                 last_key == keys[Len(keys)]
                             IN [S EXCEPT !.m_keys = keys,
                                          !.m_map = IndexPatched(@, last_key, remove_index)]
                        ELSE S
         IN [swapped EXCEPT !.m_keys = SubSeq(@, 1, Len(@) - 1), !.m_map = MapErase(@, k)]
    ELSE S

\* random_index is the value of generate_random_index(), in [0, size - 1]
optimized_erase_random(S, random_index) ==
    IF S.m_keys = <<>>
    THEN [S EXCEPT !.thrown = TRUE]
    ELSE LET victim_key == S.m_keys[random_index + 1]
             swapped == IF random_index # Len(S.m_keys) - 1
                        THEN LET keys == SwapWithBack(S.m_keys, random_index)
                                 last_key == keys[Len(keys)]
                             IN [S EXCEPT !.m_keys = keys,
                                          !.m_map = IndexPatched(@, last_key, random_index)]
                        ELSE S
         IN [swapped EXCEPT !.m_keys = SubSeq(@, 1, Len(@) - 1), !.m_map = MapErase(@, victim_key)]

optimized_put(S, k, v, random_index) ==
    IF k \in DOMAIN S.m_map
    THEN [S EXCEPT !.m_map = MapPut(@, k, [first |-> v, second |-> @[k].second])]
    ELSE LET made_room ==
                 IF Cardinality(DOMAIN S.m_map) >= S.m_capacity /\ S.m_capacity > 0
                 THEN optimized_erase_random(S, random_index)
                 ELSE S
         IN IF made_room.thrown THEN made_room
            ELSE [made_room EXCEPT !.m_keys = Append(@, k),
                                   !.m_map = MapPut(@, k, [first |-> v, second |-> Len(made_room.m_keys)])]

optimized_clear(S) == [S EXCEPT !.m_map = EmptyMap, !.m_keys = <<>>]

validate_consistency(S) ==
    /\ Cardinality(DOMAIN S.m_map) = Len(S.m_keys)
    /\ \A idx \in 0..(Len(S.m_keys) - 1) :
          S.m_keys[idx + 1] \in DOMAIN S.m_map /\ S.m_map[S.m_keys[idx + 1]].second = idx
    /\ \A key \in DOMAIN S.m_map :
          S.m_map[key].second < Len(S.m_keys) /\ S.m_keys[S.m_map[key].second + 1] = key

\* the indexes generate_random_index() can return
RandomIndexes(S) == IF S.m_keys = <<>> THEN {0} ELSE 0..(Len(S.m_keys) - 1)

InitRandomStorage ==
    /\ impl = "storage"
    /\ algorithm = "random"
    /\ m_storage = EmptyMap
    /\ m_statistics = hash_storage_new
    /\ m_eviction_policy = random_new
    /\ m_access_policy = access_new("random")
    /\ m_capacity_policy = fixed_new(0)
    /\ m_list = <<>>
    /\ m_map = EmptyMap
    /\ m_capacity \in Keys
    /\ touchOrder = <<>>
    /\ insOrder = <<>>
    /\ reachOrder = <<>>
    /\ runs = <<>>

StorageBecomes(S) ==
    /\ m_map' = S.m_map
    /\ m_list' = S.m_keys
    /\ m_capacity' = S.m_capacity
    /\ UNCHANGED <<impl, algorithm, runs, policyVars, touchOrder, insOrder, reachOrder>>

\* after undefined behaviour the storage can be in any state and no call on
\* it has a defined outcome: impl = "undefined" stands for all of them, and
\* no operation is followed further
StorageUndefined ==
    /\ impl' = "undefined"
    /\ UNCHANGED <<algorithm, runs, policyVars, legacyVars, touchOrder, insOrder, reachOrder>>

StorageInsert(k) == impl = "storage" /\ StorageBecomes(optimized_insert(RandomStorage, k, "a"))

StorageErase(k) ==
    /\ impl = "storage"
    /\ IF optimized_erase_undefined(RandomStorage, k)
       THEN StorageUndefined
       ELSE StorageBecomes(optimized_erase(RandomStorage, k))

StorageEraseRandom ==
    /\ impl = "storage"
    /\ \E r \in RandomIndexes(RandomStorage) : StorageBecomes(optimized_erase_random(RandomStorage, r))

StoragePut(k) ==
    /\ impl = "storage"
    /\ \E r \in RandomIndexes(RandomStorage) : StorageBecomes(optimized_put(RandomStorage, k, "a", r))

StorageClear == impl = "storage" /\ StorageBecomes(optimized_clear(RandomStorage))

NextRandomStorage ==
    \/ \E k \in Keys : StorageInsert(k)
    \/ \E k \in Keys : StorageErase(k)
    \/ StorageEraseRandom
    \/ \E k \in Keys : StoragePut(k)
    \/ StorageClear

SpecRandomStorage == InitRandomStorage /\ [][NextRandomStorage]_vars

\* C31: optimized_random_storage keeps its key vector and its index map in
\* agreement after any sequence of insert, erase, erase_random, put and
\* clear: validate_consistency() returns true.
C31_StorageConsistent ==
    impl \in {"storage", "undefined"} => (impl = "storage" /\ validate_consistency(RandomStorage))

\* ------------------------------------------------------------------------
\* The two RANDOM caches: the policy-based cache with random_eviction_policy
\* and the legacy cache<.., algorithm::random_cache>
InitRandom ==
    /\ impl \in {"policy", "legacy"}
    /\ algorithm = "random"
    /\ m_storage = EmptyMap
    /\ m_statistics = hash_storage_new
    /\ m_eviction_policy = random_new
    /\ m_access_policy = access_new("random")
    /\ m_capacity_policy \in (IF impl = "policy" THEN InitialCapacityPolicies ELSE {fixed_new(0)})
    /\ m_list = <<>>
    /\ m_map = EmptyMap
    /\ m_capacity \in (IF impl = "legacy" THEN Capacities ELSE {0})
    /\ touchOrder = <<>>
    /\ insOrder = <<>>
    /\ reachOrder = <<>>
    /\ runs = <<>>

NextRandom ==
    \/ \E k \in Keys, v \in Values : Put(k, v)
    \/ \E k \in Keys : Get(k)
    \/ \E k \in Keys : Erase(k)
    \/ Clear
    \/ \E n \in Capacities : SetCapacity(n)
    \/ \E k \in Keys, v \in Values : LegacyPutTracked(k, v)
    \/ \E k \in Keys : LegacyGetTracked(k)
    \/ LegacyClearTracked

SpecRandom == InitRandom /\ [][NextRandom]_vars

\* keys is a vector without repetition, index maps exactly its keys, each to
\* its position counted from 0
IndexAgreement(keys, index) ==
    /\ \A i, j \in DOMAIN keys : keys[i] = keys[j] => i = j
    /\ Len(keys) = Cardinality(DOMAIN index)
    /\ \A i \in DOMAIN keys : keys[i] \in DOMAIN index /\ index[keys[i]] = i - 1

\* C32: in the RANDOM eviction policy behind the facade and in the legacy
\* RANDOM cache, the key vector holds each tracked key exactly once, has as
\* many elements as the index map, and the key at position i maps back to i.
C32_RandomIndexAgreement ==
    (algorithm = "random" /\ impl \in {"policy", "legacy"}) =>
        IF impl = "policy"
        THEN /\ IndexAgreement(m_eviction_policy.m_keys, m_eviction_policy.m_key_to_index)
             /\ Range(m_eviction_policy.m_keys) = DOMAIN m_storage
        ELSE IndexAgreement(m_list, [k \in DOMAIN m_map |-> m_map[k].second])

\* the facade tracks two or more keys, and erasing the first key of the
\* vector moves the last key into its slot and patches its index
C32_Witness ==
    /\ algorithm = "random" /\ impl = "policy"
    /\ Len(m_eviction_policy.m_keys) >= 2
    /\ LET last_key == m_eviction_policy.m_keys[Len(m_eviction_policy.m_keys)]
           E == cache_erase(Facade, m_eviction_policy.m_keys[1]).ev
       IN /\ E.m_keys[1] = last_key
          /\ E.m_key_to_index[last_key] = 0
          /\ Len(E.m_keys) = Len(m_eviction_policy.m_keys) - 1

\* ------------------------------------------------------------------------
\* lfu_eviction_policy and mfu_eviction_policy on their own: the four calls
\* of the policy interface that change the buckets, on_insert for a key the
\* policy does not track ("Called when a new key is inserted")
InitFrequency ==
    /\ impl = "eviction"
    /\ algorithm \in {"lfu", "mfu"}
    /\ m_storage = EmptyMap
    /\ m_statistics = hash_storage_new
    /\ m_eviction_policy = eviction_new(algorithm)
    /\ m_access_policy = access_new(algorithm)
    /\ m_capacity_policy = fixed_new(0)
    /\ m_list = <<>>
    /\ m_map = EmptyMap
    /\ m_capacity = 0
    /\ touchOrder = <<>>
    /\ insOrder = <<>>
    /\ reachOrder = <<>>
    /\ runs = <<>>

PolicyBecomes(ev) ==
    /\ m_eviction_policy' = ev
    /\ UNCHANGED <<impl, algorithm, runs, m_storage, m_statistics, m_access_policy,
                   m_capacity_policy, legacyVars, touchOrder, insOrder, reachOrder>>

\* a counter is followed up to MaxFreq + 1
FrequencyBelowBound(k) ==
    k \in DOMAIN m_eviction_policy.m_key_frequency
        => m_eviction_policy.m_key_frequency[k] <= MaxFreq

PolicyOnInsert(k) ==
    /\ k \notin DOMAIN m_eviction_policy.m_key_frequency
    /\ PolicyBecomes(on_insert(m_eviction_policy, k))

PolicyOnAccess(k) == FrequencyBelowBound(k) /\ PolicyBecomes(on_access(m_eviction_policy, k))

PolicyOnUpdate(k) == FrequencyBelowBound(k) /\ PolicyBecomes(on_update(m_eviction_policy, k))

PolicyRemoveKey(k) == PolicyBecomes(remove_key(m_eviction_policy, k))

NextFrequency ==
    \/ \E k \in Keys : PolicyOnInsert(k)
    \/ \E k \in Keys : PolicyOnAccess(k)
    \/ \E k \in Keys : PolicyOnUpdate(k)
    \/ \E k \in Keys : PolicyRemoveKey(k)

SpecFrequency == InitFrequency /\ [][NextFrequency]_vars

\* the positions of key k in a bucket
BucketPositions(bucket, k) == {i \in DOMAIN bucket : bucket[i].key = k}

BucketAgreement(ev) ==
    /\ \A k \in DOMAIN ev.m_key_frequency :
          LET f == ev.m_key_frequency[k]
          IN /\ f \in DOMAIN ev.m_frequency_buckets
             /\ Cardinality(BucketPositions(ev.m_frequency_buckets[f], k)) = 1
             /\ \A g \in DOMAIN ev.m_frequency_buckets \ {f} :
                   BucketPositions(ev.m_frequency_buckets[g], k) = {}
             /\ k \in DOMAIN ev.m_key_to_iterator
             /\ \E i \in BucketPositions(ev.m_frequency_buckets[f], k) :
                   ev.m_frequency_buckets[f][i].node = ev.m_key_to_iterator[k]
    /\ \A f \in DOMAIN ev.m_frequency_buckets : ev.m_frequency_buckets[f] # <<>>

ListPositions(list, k) == {i \in DOMAIN list : list[i].key = k}

ListAgreement(ev) ==
    /\ \A k \in DOMAIN ev.m_key_to_iterator :
          /\ Cardinality(ListPositions(ev.m_access_list, k)) = 1
          /\ \E i \in ListPositions(ev.m_access_list, k) :
                ev.m_access_list[i].node = ev.m_key_to_iterator[k]
    /\ Len(ev.m_access_list) = Cardinality(DOMAIN ev.m_key_to_iterator)

\* C34: in the LRU and MRU eviction policies, after every on_insert,
\* on_access, on_update and remove_key issued by the facade each tracked key
\* stands exactly once in the recency list, the list and the key-to-handle
\* map have the same size, and the handle stored for a key is the node of
\* the list element holding that key.
C34_ListAgreement ==
    (impl = "policy" /\ algorithm \in {"lru", "mru"}) => ListAgreement(m_eviction_policy)

\* a cache holding two keys whose next get moves the second element of the
\* list to the front, and whose next put of a third key evicts
C34_Witness ==
    /\ impl = "policy"
    /\ algorithm \in {"lru", "mru"}
    /\ Len(m_eviction_policy.m_access_list) = 2
    /\ ListKeys(m_eviction_policy.m_access_list) = touchOrder
    /\ \E k \in DOMAIN m_storage :
          LET C == cache_get(Facade, k)
          IN /\ ~C.thrown
             /\ C.ev.m_access_list # m_eviction_policy.m_access_list
             /\ ListAgreement(C.ev)
    /\ \E k \in Keys \ DOMAIN m_storage :
          \E C \in PutOutcomes(k, "a") : C.evicted # <<>> /\ ListAgreement(C.ev)

\* ------------------------------------------------------------------------
\* A policy_based_cache with soft_capacity_policy and one key more than
\* Keys, so that a cache between its target and its hard maximum can still
\* be given a new key
DrainKeys == 1..(MaxKey + 1)

InitDrain ==
    /\ impl = "policy"
    /\ algorithm \in {"lru", "fifo"}
    /\ m_storage = EmptyMap
    /\ m_statistics = hash_storage_new
    /\ m_eviction_policy = eviction_new(algorithm)
    /\ m_access_policy = access_new(algorithm)
    /\ m_capacity_policy \in InitialSoftPolicies
    /\ m_list = <<>>
    /\ m_map = EmptyMap
    /\ m_capacity = 0
    /\ touchOrder = <<>>
    /\ insOrder = <<>>
    /\ reachOrder = <<>>
    /\ runs = <<>>

NextDrain ==
    \/ \E k \in DrainKeys : Put(k, "a")
    \/ \E k \in DrainKeys : Get(k)
    \/ \E k \in DrainKeys : Erase(k)

SpecDrain == InitDrain /\ [][NextDrain]_vars

\* target < size() < hard maximum
AboveTarget ==
    /\ m_capacity_policy.m_target_capacity < storage_size(m_storage)
    /\ storage_size(m_storage) < m_capacity_policy.m_max_capacity

\* C35: whenever the size of a soft-capacity cache is above its target and
\* below its hard maximum, a put of a new key evicts one existing entry
\* before inserting, so the put does not make the cache larger.
C35_SoftDrains ==
    (impl = "policy" /\ m_capacity_policy.kind = "soft" /\ AboveTarget)
        => \A k \in DrainKeys \ DOMAIN m_storage : \A C \in PutOutcomes(k, "a") :
              /\ Len(C.evicted) = 1
              /\ storage_size(C.st) <= storage_size(m_storage)

\* ------------------------------------------------------------------------
\* dynamic_capacity_policy::consider_capacity_adjustment, which no cache
\* calls: the policy on its own, constructed with min <= base <= max
MaxInterval == 3

Intervals == 1..MaxInterval

\* dynamic_capacity_policy(base, min, max, growth, shrink, interval)
dynamic_with_interval(p_base_capacity, p_min_capacity, p_max_capacity, p_growth_factor, p_shrink_factor, p_adjustment_interval) ==
    [kind |-> "dynamic", m_base_capacity |-> p_base_capacity,
     m_current_capacity |-> p_base_capacity,
     m_min_capacity |-> p_min_capacity, m_max_capacity |-> p_max_capacity,
     m_growth_factor |-> p_growth_factor, m_shrink_factor |-> p_shrink_factor,
     m_adjustment_counter |-> 0, m_adjustment_interval |-> p_adjustment_interval]

\* utilization = double(size) / double(capacity) against 0.9 and 0.5; a
\* capacity of 0 gives infinity for a positive size and NaN for size 0, and
\* every comparison with NaN is false
high_utilization(p_current_size, n) ==
    IF n = 0 THEN p_current_size > 0 ELSE 10 * p_current_size > 9 * n

low_utilization(p_current_size, n) == n # 0 /\ 2 * p_current_size < n

\* size_t(double(n) * factor), the factor in hundredths
scaled(n, factor) == (n * factor) \div FactorUnit

consider_capacity_adjustment(cp, p_current_size) ==
    LET counter == cp.m_adjustment_counter + 1
        n == cp.m_current_capacity
    IN IF counter >= cp.m_adjustment_interval
       THEN IF high_utilization(p_current_size, n) /\ n < cp.m_max_capacity
            THEN [cp EXCEPT !.m_adjustment_counter = 0,
                            !.m_current_capacity = Min({scaled(n, cp.m_growth_factor), cp.m_max_capacity})]
            ELSE IF low_utilization(p_current_size, n) /\ n > cp.m_min_capacity
            THEN [cp EXCEPT !.m_adjustment_counter = 0,
                            !.m_current_capacity =
                                Max({Max({scaled(n, cp.m_shrink_factor), cp.m_min_capacity}),
                                     p_current_size})]
            ELSE [cp EXCEPT !.m_adjustment_counter = 0]
       ELSE [cp EXCEPT !.m_adjustment_counter = counter]

\* runs[1] counts the calls of consider_capacity_adjustment
InitAdjust ==
    /\ impl = "capacity"
    /\ algorithm = "lru"
    /\ m_storage = EmptyMap
    /\ m_statistics = hash_storage_new
    /\ m_eviction_policy = eviction_new(algorithm)
    /\ m_access_policy = access_new(algorithm)
    /\ \E b \in BoundArguments, mn \in BoundArguments, mx \in BoundArguments,
          g \in GrowthArguments, h \in ShrinkArguments, i \in Intervals :
          /\ GoodBounds(b, mn, mx)
          /\ m_capacity_policy = dynamic_with_interval(b, mn, mx, g, h, i)
    /\ m_list = <<>>
    /\ m_map = EmptyMap
    /\ m_capacity = 0
    /\ touchOrder = <<>>
    /\ insOrder = <<>>
    /\ reachOrder = <<>>
    /\ runs = <<0>>

ConsiderCapacityAdjustment(p_current_size) ==
    /\ impl = "capacity"
    /\ runs[1] < MaxOperations
    /\ m_capacity_policy' = consider_capacity_adjustment(m_capacity_policy, p_current_size)
    /\ runs' = <<runs[1] + 1>>
    /\ UNCHANGED <<impl, algorithm, m_storage, m_statistics, m_eviction_policy, m_access_policy,
                   legacyVars, touchOrder, insOrder, reachOrder>>

NextAdjust == \E s \in Sizes : ConsiderCapacityAdjustment(s)

SpecAdjust == InitAdjust /\ [][NextAdjust]_vars

\* what the call with size s, the calls-th call, may do to a policy cp
Adjusted(cp, s, calls) ==
    LET n == cp.m_current_capacity
        after == consider_capacity_adjustment(cp, s).m_current_capacity
    IN /\ cp.m_min_capacity <= after /\ after <= cp.m_max_capacity
       /\ after # n => calls % cp.m_adjustment_interval = 0
       /\ after > n => /\ high_utilization(s, n) /\ n < cp.m_max_capacity
                       /\ after = Min({scaled(n, cp.m_growth_factor), cp.m_max_capacity})
       /\ after < n => /\ low_utilization(s, n) /\ n > cp.m_min_capacity
                       /\ after = Max({scaled(n, cp.m_shrink_factor), cp.m_min_capacity, s})
                       /\ after >= s

\* C36: for a dynamic capacity policy constructed with min <= base <= max,
\* every call consider_capacity_adjustment(s) leaves the capacity inside
\* [min, max], changes it only on every adjustment_interval-th call, grows it
\* only when s/n > 0.9 and n < max, to min(floor(n*g), max), shrinks it only
\* when s/n < 0.5 and n > min, to max(floor(n*h), min, s), and never shrinks
\* it below the size s.
C36_AdjustmentWithinBounds ==
    impl = "capacity" => \A s \in Sizes : Adjusted(m_capacity_policy, s, runs[1] + 1)

\* ------------------------------------------------------------------------
\* A policy_based_cache whose capacity policy is reconfigured through the
\* reference that capacity_policy() returns
memory_set_memory_limit(cp, p_memory_limit) == [cp EXCEPT !.m_memory_limit = p_memory_limit]

memory_set_item_size_estimate(cp, p_item_size) ==
    [cp EXCEPT !.m_item_size_estimate = Max({1, p_item_size})]

ToleranceArguments == {0} \cup SoftTolerances

MemoryLimits == {n * MaxItemSize : n \in Capacities}

ItemSizes == 1..MaxItemSize

\* the policies the setters of the kind of cp can leave behind
Reconfigured(cp) ==
    CASE cp.kind = "soft" -> {soft_set_overage_tolerance(cp, p) : p \in ToleranceArguments}
      [] cp.kind = "dynamic" ->
            {dynamic_set_capacity_bounds(cp, mn, mx) : mn \in BoundArguments, mx \in BoundArguments}
      [] cp.kind = "memory" ->
            {memory_set_memory_limit(cp, n) : n \in MemoryLimits}
                \cup {memory_set_item_size_estimate(cp, n) : n \in ItemSizes}
      [] OTHER -> {cp}

InitReconfigure ==
    /\ impl = "policy"
    /\ algorithm = "lru"
    /\ m_storage = EmptyMap
    /\ m_statistics = hash_storage_new
    /\ m_eviction_policy = eviction_new(algorithm)
    /\ m_access_policy = access_new(algorithm)
    /\ m_capacity_policy \in
          InitialSoftPolicies
          \cup {dynamic_set_capacity_bounds(dynamic_new(n), 1, MaxCap + 1) : n \in Capacities}
          \cup {memory_new(n, i) : n \in MemoryLimits, i \in ItemSizes}
    /\ m_list = <<>>
    /\ m_map = EmptyMap
    /\ m_capacity = 0
    /\ touchOrder = <<>>
    /\ insOrder = <<>>
    /\ reachOrder = <<>>
    /\ runs = <<>>

\* capacity_policy().set_...(): the policy changes and nothing else does
PolicyReconfigured(cp) ==
    /\ impl = "policy"
    /\ m_capacity_policy' = cp
    /\ UNCHANGED <<impl, algorithm, runs, m_storage, m_statistics, m_eviction_policy, m_access_policy,
                   legacyVars, touchOrder, insOrder, reachOrder>>

SetOverageTolerance(p_tolerance) ==
    /\ m_capacity_policy.kind = "soft"
    /\ PolicyReconfigured(soft_set_overage_tolerance(m_capacity_policy, p_tolerance))

SetBounds(p_min_capacity, p_max_capacity) ==
    /\ m_capacity_policy.kind = "dynamic"
    /\ PolicyReconfigured(dynamic_set_capacity_bounds(m_capacity_policy, p_min_capacity, p_max_capacity))

SetMemoryLimit(p_memory_limit) ==
    /\ m_capacity_policy.kind = "memory"
    /\ PolicyReconfigured(memory_set_memory_limit(m_capacity_policy, p_memory_limit))

SetItemSizeEstimate(p_item_size) ==
    /\ m_capacity_policy.kind = "memory"
    /\ PolicyReconfigured(memory_set_item_size_estimate(m_capacity_policy, p_item_size))

NextReconfigure ==
    \/ \E k \in Keys : Put(k, "a")
    \/ \E k \in Keys : Erase(k)
    \/ \E p \in ToleranceArguments : SetOverageTolerance(p)
    \/ \E mn \in BoundArguments, mx \in BoundArguments : SetBounds(mn, mx)
    \/ \E n \in MemoryLimits : SetMemoryLimit(n)
    \/ \E n \in ItemSizes : SetItemSizeEstimate(n)

SpecReconfigure == InitReconfigure /\ [][NextReconfigure]_vars

\* C37: when a setter called through capacity_policy() on a non-empty cache
\* returns (set_overage_tolerance for soft, set_capacity_bounds for dynamic,
\* set_memory_limit or set_item_size_estimate for memory), the size of the
\* cache, which was within the effective maximum before the call, is within
\* the new effective maximum.
C37_BoundKeptByReconfiguration ==
    (impl = "policy" /\ m_storage # EmptyMap
        /\ WithinLimit(m_capacity_policy, storage_size(m_storage)))
        => \A cp \in Reconfigured(m_capacity_policy) : WithinLimit(cp, storage_size(m_storage))

\* ------------------------------------------------------------------------
\* The legacy cache<K, V, algorithm> and the policy_based_cache of the same
\* eviction policy, hash storage, the default access policy of the algorithm
\* and fixed capacity, given the same calls
EquivalentAlgorithms == {"lru", "mru", "fifo", "lfu", "mfu"}

InitBoth ==
    /\ impl = "both"
    /\ algorithm \in EquivalentAlgorithms
    /\ m_storage = EmptyMap
    /\ m_statistics = hash_storage_new
    /\ m_eviction_policy = eviction_new(algorithm)
    /\ m_access_policy = access_new(algorithm)
    /\ m_list = <<>>
    /\ m_map = EmptyMap
    /\ m_capacity \in Capacities
    /\ m_capacity_policy = fixed_new(m_capacity)
    /\ touchOrder = <<>>
    /\ insOrder = <<>>
    /\ reachOrder = <<>>
    /\ runs = <<>>

BothCountersBelowBound(k) ==
    algorithm \in {"lfu", "mfu"}
        => /\ k \in DOMAIN m_map => m_map[k].second < MaxFreq
           /\ k \in DOMAIN m_eviction_policy.m_key_frequency
                 => m_eviction_policy.m_key_frequency[k] < MaxFreq

BothBecome(C, L) ==
    /\ m_storage' = C.st
    /\ m_statistics' = C.sp
    /\ m_eviction_policy' = C.ev
    /\ m_access_policy' = C.ap
    /\ m_capacity_policy' = C.cp
    /\ m_list' = L.m_list
    /\ m_map' = L.m_map
    /\ m_capacity' = L.m_capacity
    /\ UNCHANGED <<impl, algorithm, runs, touchOrder, insOrder, reachOrder>>

BothPut(k, v) ==
    /\ impl = "both"
    /\ BothCountersBelowBound(k)
    /\ \E C \in PutOutcomes(k, v) : BothBecome(C, legacy_put(algorithm, Legacy, k, v))

BothGet(k) ==
    /\ impl = "both"
    /\ BothCountersBelowBound(k)
    /\ BothBecome(cache_get(Facade, k), legacy_get(Legacy, k))

BothClear == impl = "both" /\ BothBecome(cache_clear(Facade), legacy_clear(Legacy))

NextBoth ==
    \/ \E k \in Keys, v \in Values : BothPut(k, v)
    \/ \E k \in Keys : BothGet(k)
    \/ BothClear

SpecBoth == InitBoth /\ [][NextBoth]_vars

\* what get(k) hands back: the value, or std::out_of_range
GetResult(G) == IF G.thrown THEN [thrown |-> TRUE, value |-> NoValue]
                ELSE [thrown |-> FALSE, value |-> G.value]

\* C38: for LRU, MRU, FIFO, LFU and MFU with capacity n >= 1, the legacy
\* cache and the policy-based cache of the same eviction policy, hash
\* storage, default access policy and fixed capacity, run on the same
\* sequence of put, get, contains, size and clear, hold the same set of keys
\* after every step, and get, contains and size return the same results.
C38_LegacyAndPolicyAgree ==
    impl = "both" =>
        /\ DOMAIN m_storage = DOMAIN m_map
        /\ storage_size(m_storage) = Cardinality(DOMAIN m_map)
        /\ \A k \in Keys :
              /\ storage_contains(m_storage, k) = (k \in DOMAIN m_map)
              /\ GetResult(cache_get(Facade, k)) = GetResult(legacy_get(Legacy, k))

\* two full caches of counted keys, one key counted more often than another,
\* whose next put of a new key evicts the same key from both
C38_Witness ==
    /\ impl = "both"
    /\ algorithm \in {"lfu", "mfu"}
    /\ Cardinality(DOMAIN m_map) = 2
    /\ \E k \in DOMAIN m_map, j \in DOMAIN m_map : m_map[k].second > m_map[j].second
    /\ \E k \in Keys \ DOMAIN m_map :
          \E C \in PutOutcomes(k, "a") :
              /\ C.evicted # <<>>
              /\ C.evicted = legacy_put(algorithm, Legacy, k, "a").evicted

====
